---- MODULE Spec2Model ----
(***************************************************************************)
(* SysML v2 visualizer front end: the lexer (parser/lexer.ts), the         *)
(* recursive-descent parser (parser/parser.ts) and the model store         *)
(* (model/ModelContext.tsx).                                               *)
(*                                                                         *)
(* A source text is a sequence of one-character strings; positions are     *)
(* 0-based as in the code (source[pos] is src[pos + 1] here).  Token       *)
(* values are strings, built by concatenating the characters of a slice.   *)
(***************************************************************************)
EXTENDS Integers, Sequences, FiniteSets, TLC

VARIABLES
    source,     \* the text handed to tokenize / parse
    lexer,      \* locals of a running tokenize call
    parser,     \* fields and call stack of the SysMLParser instance
    history,    \* outcomes of the parse calls made so far
    store       \* state of the model store (ModelProvider)

vars == <<source, lexer, parser, history, store>>

\* ------------------------------------------------------------------ bounds

\* Longest character string given to the stand-alone lexer.
MaxSrcLen == 4
\* Most phrases appended after a family's opening context.
MaxTail == 3
\* How far past the last token a runaway scan is followed.
MaxOverrun == 1
\* Most phrases after the opening in a text given to a sequence of calls.
MaxReuseTail == 1
\* Most calls followed one after another.
MaxCalls == 2

\* ------------------------------------------------------------------ lexer

\* JavaScript's undefined, as the value of an absent string.
undefined == "<undefined>"

KEYWORDS == {
    "package", "part", "def", "port", "item", "requirement",
    "state", "transition", "attribute", "interface", "connect", "bind",
    "entry", "then", "first", "accept", "action", "inout",
    "in", "out", "id", "text"
}

WhitespaceChars == {" ", "\t", "\n", "\r"}
DigitChars == {"0", "1", "2", "3", "4", "5", "6", "7", "8", "9"}
IdentStartChars == {
    "a", "b", "c", "d", "e", "f", "g", "h", "i", "j", "k", "l", "m",
    "n", "o", "p", "q", "r", "s", "t", "u", "v", "w", "x", "y", "z",
    "A", "B", "C", "D", "E", "F", "G", "H", "I", "J", "K", "L", "M",
    "N", "O", "P", "Q", "R", "S", "T", "U", "V", "W", "X", "Y", "Z",
    "_"
}
IdentChars == IdentStartChars \cup DigitChars

\* lexer.ts 173-185
singleTokens == [c \in {"{", "}", "[", "]", "(", ")", ":", ";", "=", ",", "."} |->
    CASE c = "{" -> "LBRACE"   [] c = "}" -> "RBRACE"
      [] c = "[" -> "LBRACKET" [] c = "]" -> "RBRACKET"
      [] c = "(" -> "LPAREN"   [] c = ")" -> "RPAREN"
      [] c = ":" -> "COLON"    [] c = ";" -> "SEMICOLON"
      [] c = "=" -> "EQUALS"   [] c = "," -> "COMMA"
      [] c = "." -> "DOT"]

\* source[i]: the character at 0-based index i, undefined out of range.
charAt(src, i) == IF i >= 0 /\ i < Len(src) THEN src[i + 1] ELSE undefined

RECURSIVE concat(_)
concat(cs) == IF cs = <<>> THEN "" ELSE Head(cs) \o concat(Tail(cs))

Min(a, b) == IF a < b THEN a ELSE b

\* source.slice(start, end): the characters start .. end-1, end clamped.
slice(src, start, end) ==
    LET e == Min(end, Len(src))
    IN  IF start >= e THEN "" ELSE concat(SubSeq(src, start + 1, e))

Token(type, value, line, column) ==
    [type |-> type, value |-> value, line |-> line, column |-> column]

\* The locals of tokenize before its loop starts (lexer.ts 55-58).
LexStart(src) ==
    [source |-> src, pos |-> 0, line |-> 1, column |-> 1,
     tokens |-> <<>>, done |-> FALSE]

\* No tokenize call in progress.
LexIdle == [LexStart(<<>>) EXCEPT !.done = TRUE]

\* No tokenize call in progress, the last one having returned tokens.
LexReturned(tokens) == [LexIdle EXCEPT !.tokens = tokens]

\* Inner loop of the line comment (lexer.ts 78-80): the position of the
\* next newline at or after pos, or the end of the text.
RECURSIVE scanLineComment(_, _)
scanLineComment(src, pos) ==
    IF pos < Len(src) /\ charAt(src, pos) # "\n"
    THEN scanLineComment(src, pos + 1)
    ELSE pos

\* Inner loop of the block comment (lexer.ts 94-100), from the locals
\* [pos, line, column] to their values when the loop exits.
RECURSIVE scanBlockComment(_, _)
scanBlockComment(src, st) ==
    IF st.pos < Len(src) - 1
       /\ ~(charAt(src, st.pos) = "*" /\ charAt(src, st.pos + 1) = "/")
    THEN scanBlockComment(src,
            IF charAt(src, st.pos) = "\n"
            THEN [pos |-> st.pos + 1, line |-> st.line + 1, column |-> 1]
            ELSE [st EXCEPT !.pos = @ + 1])
    ELSE st

\* Inner loop of the string literal (lexer.ts 117-125).
RECURSIVE scanString(_, _)
scanString(src, st) ==
    IF st.pos < Len(src) /\ charAt(src, st.pos) # "\""
    THEN scanString(src,
            IF charAt(src, st.pos) = "\n"
            THEN [pos |-> st.pos + 1, line |-> st.line + 1, column |-> 1]
            ELSE [st EXCEPT !.pos = @ + 1, !.column = @ + 1])
    ELSE st

\* Inner loops of the number and identifier branches (lexer.ts 141-144,
\* 158-161): the first position at or after pos whose character is not in cls.
RECURSIVE scanWhile(_, _, _)
scanWhile(src, pos, cls) ==
    IF pos < Len(src) /\ charAt(src, pos) \in cls
    THEN scanWhile(src, pos + 1, cls)
    ELSE pos

\* skipUnknown that leaves the position where it is.
skipUnknownStuck(l) == l

\* An unknown character is skipped (lexer.ts 199-201).
skipUnknown(l) == [l EXCEPT !.pos = @ + 1, !.column = @ + 1]

\* One iteration of tokenize's while loop (lexer.ts 60-202), entered with
\* pos < source.length.
LexIteration(l) ==
    LET src  == l.source
        pos  == l.pos
        char == charAt(src, pos)
        next == charAt(src, pos + 1)
    IN  IF char \in WhitespaceChars THEN
            IF char = "\n"
            THEN [l EXCEPT !.line = @ + 1, !.column = 1, !.pos = @ + 1]
            ELSE [l EXCEPT !.column = @ + 1, !.pos = @ + 1]
        ELSE IF char = "/" /\ next = "/" THEN
            LET end == scanLineComment(src, pos)
            IN  [l EXCEPT !.pos = end,
                          !.tokens = Append(@, Token("COMMENT", slice(src, pos, end),
                                                     l.line, l.column))]
        ELSE IF char = "/" /\ next = "*" THEN
            LET st  == scanBlockComment(src,
                          [pos |-> pos + 2, line |-> l.line, column |-> l.column])
                end == st.pos + 2
            IN  [l EXCEPT !.pos = end, !.line = st.line, !.column = st.column,
                          !.tokens = Append(@, Token("COMMENT", slice(src, pos, end),
                                                     st.line, st.column))]
        ELSE IF char = "\"" THEN
            LET startCol == l.column
                start    == pos + 1
                st == scanString(src,
                          [pos |-> start, line |-> l.line, column |-> l.column + 1])
            IN  [l EXCEPT !.pos = st.pos + 1, !.line = st.line,
                          !.column = st.column + 1,
                          !.tokens = Append(@, Token("STRING", slice(src, start, st.pos),
                                                     st.line, startCol))]
        ELSE IF char \in DigitChars \/ (char = "." /\ next \in DigitChars) THEN
            LET end == scanWhile(src, pos, DigitChars \cup {"."})
            IN  [l EXCEPT !.pos = end, !.column = @ + (end - pos),
                          !.tokens = Append(@, Token("NUMBER", slice(src, pos, end),
                                                     l.line, l.column))]
        ELSE IF char \in IdentStartChars THEN
            LET end   == scanWhile(src, pos, IdentChars)
                value == slice(src, pos, end)
            IN  [l EXCEPT !.pos = end, !.column = @ + (end - pos),
                          !.tokens = Append(@,
                              Token(IF value \in KEYWORDS THEN "KEYWORD" ELSE "IDENTIFIER",
                                    value, l.line, l.column))]
        ELSE IF char \in DOMAIN singleTokens THEN
            [l EXCEPT !.pos = @ + 1, !.column = @ + 1,
                      !.tokens = Append(@, Token(singleTokens[char], char,
                                                 l.line, l.column))]
        ELSE
            skipUnknown(l)

\* The end of tokenize (lexer.ts 204-205): the EOF token is pushed and the
\* token list returned.
LexFinish(l) ==
    [l EXCEPT !.tokens = Append(@, Token("EOF", "", l.line, l.column)),
              !.done = TRUE]

\* tokenize(source) as a function: the loop run to its end.
RECURSIVE lexRun(_)
lexRun(l) ==
    IF l.pos < Len(l.source) THEN lexRun(LexIteration(l)) ELSE LexFinish(l).tokens

tokenize(src) == lexRun(LexStart(src))

\* ----------------------------------------------------------------- parser

\* The value of a Map: its entries in insertion order.
mapHas(m, key) == \E i \in 1..Len(m) : m[i].key = key

mapGet(m, key) == m[CHOOSE i \in 1..Len(m) : m[i].key = key].value

mapSet(m, key, value) ==
    IF mapHas(m, key)
    THEN [i \in 1..Len(m) |-> IF m[i].key = key THEN [key |-> key, value |-> value] ELSE m[i]]
    ELSE Append(m, [key |-> key, value |-> value])

mapValues(m) == [i \in 1..Len(m) |-> m[i].value]

\* { elements: new Map() }: a SysMLModel with no rootPackage (types.ts 97-100).
NewModel == [elements |-> <<>>, rootPackage |-> undefined]

\* A freshly constructed SysMLParser (parser.ts 21-24).  heap holds the
\* SysMLModel objects the instance has allocated and model refers to one of
\* them; frames are the locals of the productions being executed, pc the
\* loop the innermost one is in, status and error how the last call ended,
\* returned the model object it handed back and instance which SysMLParser
\* object this is.
NewParser ==
    [tokens |-> <<>>, pos |-> 0, heap |-> <<NewModel>>, model |-> 1, idCounter |-> 0,
     pc |-> "idle", frames |-> <<>>, status |-> "idle",
     error |-> undefined, returned |-> 0, instance |-> 1]

theModel(p) == p.heap[p.model]

\* parser.ts 44-46
current(p) ==
    IF p.pos < Len(p.tokens) THEN p.tokens[p.pos + 1] ELSE Token("EOF", "", 0, 0)

\* parser.ts 48-52 (the token it returns is current(p))
advance(p) == [p EXCEPT !.pos = @ + 1]

\* parser.ts 54-59
check(p, type, value) ==
    LET token == current(p)
    IN  /\ token.type = type
        /\ (value = undefined \/ token.value = value)

\* parser.ts 61-67: the parser after match(type, value); the call returned
\* check(p, type, value).
match(p, type, value) == IF check(p, type, value) THEN advance(p) ELSE p

\* A thrown Error unwinds every production and leaves parse.
throw(p, err) ==
    [p EXCEPT !.status = "raised", !.error = err, !.frames = <<>>, !.pc = "idle"]

\* expect that throws nothing: a token that does not match is passed over.
expectLenient(p, type, value) == advance(p)

\* expect that takes the token before it tests it.
expectConsuming(p, type, value) ==
    IF ~check(p, type, value)
    THEN LET token == current(p)
         IN  throw(advance(p),
                   [expectedType |-> type,
                    expectedValue |-> IF value = undefined THEN "" ELSE value,
                    gotType |-> token.type, gotValue |-> token.value,
                    line |-> token.line])
    ELSE advance(p)

\* parser.ts 69-77: the parser after expect(type, value), which returned
\* current(p) unless it threw.
expect(p, type, value) ==
    IF ~check(p, type, value)
    THEN LET token == current(p)
         IN  throw(p, [expectedType |-> type,
                       expectedValue |-> IF value = undefined THEN "" ELSE value,
                       gotType |-> token.type, gotValue |-> token.value,
                       line |-> token.line])
    ELSE advance(p)

\* Sequencing: what follows a call that may have thrown.
Then(p, F(_)) == IF p.status = "raised" THEN p ELSE F(p)

\* parser.ts 138-144
lookAhead(p, type, value) ==
    /\ p.pos + 1 < Len(p.tokens)
    /\ LET nextToken == p.tokens[p.pos + 2]
       IN  /\ nextToken.type = type
           /\ (value = undefined \/ nextToken.value = value)

\* generateId that counts by two.
generateIdByTwo(p) == [p EXCEPT !.idCounter = @ + 2]

\* generateId that does not count.
generateIdStuck(p) == p

\* parser.ts 40-42: the parser after generateId(), which returned lastId.
generateId(p) == [p EXCEPT !.idCounter = @ + 1]

lastId(p) == "elem_" \o ToString(p.idCounter)

\* The elements of sequence s.
Range(s) == { s[i] : i \in 1..Len(s) }

\* this.model.elements.set(id, element)
setElement(p, elem) ==
    [p EXCEPT !.heap[p.model].elements = mapSet(@, elem.id, elem)]

\* The call stack.
topFrame(p) == p.frames[Len(p.frames)]

pushFrame(p, fn, local, pc) ==
    [p EXCEPT !.frames = Append(@, [fn |-> fn, local |-> local]), !.pc = pc]

popFrame(p) == [p EXCEPT !.frames = SubSeq(@, 1, Len(@) - 1)]

setLocal(p, local) == [p EXCEPT !.frames[Len(p.frames)].local = local]

\* A production returns id (or null) to the body loop that called it, which
\* appends it to its element's lists and goes round again: parser.ts 107-130
\* for a package body, 247-263 for a part definition body, 393-400 for a
\* state definition body.
null == "<null>"

\* The useState values of ModelProvider (part_005 21-23): no model, nothing
\* selected, the simplified view.  model is <<>> for null and <<m>> for the
\* Model m; console holds what console.error has been given.
NewStore ==
    [model |-> <<>>, selectedElement |-> null, viewMode |-> "simplified",
     console |-> <<>>]

\* pushPackageChild that pushes nothing: the element is left out of its
\* parent's children.
pushPackageChildDropped(p, parentKey, id) == p

\* parent.children.push(elemId), unless parseConnection returned null
\* (parser.ts 104, 109-130)
pushPackageChild(p, parentKey, id) ==
    LET parent == mapGet(theModel(p).elements, parentKey)
    IN  IF id = null THEN p
        ELSE setElement(p, [parent EXCEPT !.children = Append(@, id)])

\* pushPartDefChild that puts the new child first.
pushPartDefChildFirst(partDef, callee, id) ==
    IF id = null THEN partDef
    ELSE [partDef EXCEPT
            !.ports = IF callee = "parsePort" THEN <<id>> \o @ ELSE @,
            !.parts = IF callee = "parsePart" THEN <<id>> \o @ ELSE @,
            !.children = <<id>> \o @]

\* the pushes of parsePartDefBody (parser.ts 247-263)
pushPartDefChild(partDef, callee, id) ==
    IF id = null THEN partDef
    ELSE [partDef EXCEPT
            !.ports = IF callee = "parsePort" THEN Append(@, id) ELSE @,
            !.parts = IF callee = "parsePart" THEN Append(@, id) ELSE @,
            !.children = Append(@, id)]

\* pushStateDefChild that takes every child for a state.
pushStateDefChildAsState(stateDef, callee, id) ==
    [stateDef EXCEPT !.states = Append(@, id), !.children = Append(@, id)]

\* the pushes of parseStateDefBody (parser.ts 393-400)
pushStateDefChild(stateDef, callee, id) ==
    [stateDef EXCEPT
        !.states = IF callee = "parseState" THEN Append(@, id) ELSE @,
        !.transitions = IF callee = "parseTransition" THEN Append(@, id) ELSE @,
        !.children = Append(@, id)]

returnTo(p, callee, id) ==
    LET caller == topFrame(p)
    IN  IF caller.fn = "parsePackage" THEN
            [pushPackageChild(p, caller.local.id, id) EXCEPT !.pc = "packageBody"]
        ELSE IF caller.fn = "parsePartDef" THEN
            [setLocal(p, pushPartDefChild(caller.local, callee, id))
                EXCEPT !.pc = "partDefBody"]
        ELSE
            [setLocal(p, pushStateDefChild(caller.local, callee, id))
                EXCEPT !.pc = "stateDefBody"]

\* complete without this.model.elements.set(id, element).
completeUnregistered(p, callee, elem) == returnTo(p, callee, elem.id)

\* The end of a production that creates an element: it registers the element
\* and returns its id.
complete(p, callee, elem) == returnTo(setElement(p, elem), callee, elem.id)

\* The id of the element whose body the innermost loop is parsing.
parentId(p) == topFrame(p).local.id

\* The fields every element literal sets (types.ts 20-27); metadata is {}
\* throughout and is left out.  extra holds the fields of the variant.
Element(type, name, id, parent, extra) ==
    LET base == [type |-> type, name |-> name, id |-> id, parent |-> parent,
                 children |-> <<>>]
    IN  [f \in DOMAIN base \cup DOMAIN extra |->
            IF f \in DOMAIN extra THEN extra[f] ELSE base[f]]

\* no further fields
none == [f \in {} |-> undefined]

\* qualifiedNameRest that reads the segments after the first and joins none
\* of them to the name.
RECURSIVE qualifiedNameRestFirstSegment(_, _)
qualifiedNameRestFirstSegment(p, name) ==
    IF check(p, "DOT", undefined)
    THEN LET p1 == advance(p)
             p2 == expect(p1, "IDENTIFIER", undefined)
         IN  IF p2.status = "raised" THEN [p |-> p2, name |-> name]
             ELSE qualifiedNameRestFirstSegment(p2, name)
    ELSE [p |-> p, name |-> name]

\* parser.ts 546-552: the parser after parseQualifiedName() and, unless it
\* threw, the name it returned.
RECURSIVE qualifiedNameRest(_, _)
qualifiedNameRest(p, name) ==
    IF check(p, "DOT", undefined)
    THEN LET p1 == advance(p)
             p2 == expect(p1, "IDENTIFIER", undefined)
         IN  IF p2.status = "raised" THEN [p |-> p2, name |-> name]
             ELSE qualifiedNameRest(p2, name \o "." \o current(p1).value)
    ELSE [p |-> p, name |-> name]

parseQualifiedName(p) ==
    LET p1 == expect(p, "IDENTIFIER", undefined)
    IN  IF p1.status = "raised" THEN [p |-> p1, name |-> undefined]
        ELSE qualifiedNameRest(p1, current(p).value)

\* parser.ts 146-173, up to the body loop
parseItemDef(p, parent) ==
    Then(expect(p, "KEYWORD", "item"), LAMBDA p1 :
    Then(expect(p1, "KEYWORD", "def"), LAMBDA p2 :
    Then(expect(p2, "IDENTIFIER", undefined), LAMBDA p3 :
        LET p4   == generateId(p3)
            item == Element("item_def", current(p2).value, lastId(p4), parent, none)
        IN  IF check(p4, "LBRACE", undefined)
            THEN pushFrame(advance(p4), "parseItemDef", item, "itemDefBody")
            ELSE complete(match(p4, "SEMICOLON", undefined), "parseItemDef", item))))

\* parser.ts 175-215, up to the body loop
parsePortDef(p, parent) ==
    Then(expect(p, "KEYWORD", "port"), LAMBDA p1 :
    Then(expect(p1, "KEYWORD", "def"), LAMBDA p2 :
    Then(expect(p2, "IDENTIFIER", undefined), LAMBDA p3 :
        LET p4      == generateId(p3)
            portDef == Element("port_def", current(p2).value, lastId(p4), parent,
                            [items |-> <<>>])
        IN  IF check(p4, "LBRACE", undefined)
            THEN pushFrame(advance(p4), "parsePortDef", portDef, "portDefBody")
            ELSE complete(match(p4, "SEMICOLON", undefined), "parsePortDef", portDef))))

\* parser.ts 217-243, up to the body loop
parsePartDef(p, parent) ==
    Then(expect(p, "KEYWORD", "part"), LAMBDA p1 :
    Then(expect(p1, "KEYWORD", "def"), LAMBDA p2 :
    Then(expect(p2, "IDENTIFIER", undefined), LAMBDA p3 :
        LET p4      == generateId(p3)
            partDef == Element("part_def", current(p2).value, lastId(p4), parent,
                            [ports |-> <<>>, parts |-> <<>>])
        IN  IF check(p4, "LBRACE", undefined)
            THEN pushFrame(advance(p4), "parsePartDef", partDef, "partDefBody")
            ELSE complete(match(p4, "SEMICOLON", undefined), "parsePartDef", partDef))))

\* parser.ts 270-293
parsePort(p, parent) ==
    Then(expect(p, "KEYWORD", "port"), LAMBDA p1 :
    Then(expect(p1, "IDENTIFIER", undefined), LAMBDA p2 :
        LET p3 == generateId(p2)
            id == lastId(p3)
            p4 == IF check(p3, "COLON", undefined)
                  THEN expect(advance(p3), "IDENTIFIER", undefined)
                  ELSE p3
            defRef == IF check(p3, "COLON", undefined)
                      THEN current(advance(p3)).value ELSE undefined
        IN  Then(p4, LAMBDA p5 :
                complete(match(p5, "SEMICOLON", undefined), "parsePort",
                         Element("port", current(p1).value, id, parent,
                            [defRef |-> defRef])))))

\* parser.ts 295-325
parsePart(p, parent) ==
    Then(expect(p, "KEYWORD", "part"), LAMBDA p1 :
    Then(expect(p1, "IDENTIFIER", undefined), LAMBDA p2 :
        LET p3 == generateId(p2)
            id == lastId(p3)
            colon == check(p3, "COLON", undefined)
            p4 == IF colon THEN expect(advance(p3), "IDENTIFIER", undefined) ELSE p3
            defRef == IF colon THEN current(advance(p3)).value ELSE undefined
            bracket == colon /\ p4.status # "raised" /\ check(p4, "LBRACKET", undefined)
            p5 == IF bracket
                  THEN Then(expect(advance(p4), "NUMBER", undefined), LAMBDA q :
                            expect(q, "RBRACKET", undefined))
                  ELSE p4
            multiplicity == IF bracket THEN current(advance(p4)).value ELSE undefined
        IN  Then(p5, LAMBDA p6 :
                complete(match(p6, "SEMICOLON", undefined), "parsePart",
                         Element("part", current(p1).value, id, parent,
                            [defRef |-> defRef, multiplicity |-> multiplicity])))))

\* parser.ts 327-363, up to the body loop
parseRequirementDef(p, parent) ==
    Then(expect(p, "KEYWORD", "requirement"), LAMBDA p1 :
    Then(expect(p1, "KEYWORD", "def"), LAMBDA p2 :
    Then(expect(p2, "IDENTIFIER", undefined), LAMBDA p3 :
        LET p4  == generateId(p3)
            req == Element("requirement_def", current(p2).value, lastId(p4), parent,
                            [reqId |-> undefined, text |-> undefined])
        IN  IF check(p4, "LBRACE", undefined)
            THEN pushFrame(advance(p4), "parseRequirementDef", req, "requirementDefBody")
            ELSE complete(p4, "parseRequirementDef", req))))

\* parser.ts 365-389, up to the body loop
parseStateDef(p, parent) ==
    Then(expect(p, "KEYWORD", "state"), LAMBDA p1 :
    Then(expect(p1, "KEYWORD", "def"), LAMBDA p2 :
    Then(expect(p2, "IDENTIFIER", undefined), LAMBDA p3 :
        LET p4       == generateId(p3)
            stateDef == Element("state_def", current(p2).value, lastId(p4), parent,
                            [states |-> <<>>, transitions |-> <<>>])
        IN  IF check(p4, "LBRACE", undefined)
            THEN pushFrame(advance(p4), "parseStateDef", stateDef, "stateDefBody")
            ELSE complete(p4, "parseStateDef", stateDef))))

\* parseState that makes the state an element of the root package.
parseStateUnderRoot(p, parent) ==
    Then(expect(p, "KEYWORD", "state"), LAMBDA p1 :
    Then(expect(p1, "IDENTIFIER", undefined), LAMBDA p2 :
        LET p3    == generateId(p2)
            state == Element("state", current(p1).value, lastId(p3),
                             theModel(p).rootPackage, [entryAction |-> undefined])
        IN  IF check(p3, "LBRACE", undefined)
            THEN pushFrame(advance(p3), "parseState", state, "stateBody")
            ELSE complete(p3, "parseState", state)))

\* parser.ts 415-449, up to the body loop
parseState(p, parent) ==
    Then(expect(p, "KEYWORD", "state"), LAMBDA p1 :
    Then(expect(p1, "IDENTIFIER", undefined), LAMBDA p2 :
        LET p3    == generateId(p2)
            state == Element("state", current(p1).value, lastId(p3), parent,
                            [entryAction |-> undefined])
        IN  IF check(p3, "LBRACE", undefined)
            THEN pushFrame(advance(p3), "parseState", state, "stateBody")
            ELSE complete(p3, "parseState", state)))

\* parser.ts 451-487, up to the clause loop; the element is built from the
\* locals name, id, source, target and trigger when the loop has ended.
parseTransition(p, parent) ==
    Then(expect(p, "KEYWORD", "transition"), LAMBDA p1 :
    Then(expect(p1, "IDENTIFIER", undefined), LAMBDA p2 :
        LET p3 == generateId(p2)
        IN  pushFrame(p3, "parseTransition",
                      Element("transition", current(p1).value, lastId(p3), parent,
                            [source |-> "", target |-> "", trigger |-> undefined]),
                      "transitionLoop")))

\* parser.ts 489-521, up to the skip loop of a statement that is not a connect
parseConnection(p, parent) ==
    Then(expect(p, "KEYWORD", "interface"), LAMBDA p1 :
        IF ~check(p1, "KEYWORD", "connect")
        THEN pushFrame(p1, "parseConnection", [id |-> null], "connectionSkip")
        ELSE
        Then(expect(advance(p1), "LPAREN", undefined), LAMBDA p2 :
        LET src == parseQualifiedName(p2)
        IN  Then(src.p, LAMBDA p3 :
            Then(expect(p3, "COMMA", undefined), LAMBDA p4 :
            LET tgt == parseQualifiedName(p4)
            IN  Then(tgt.p, LAMBDA p5 :
                Then(expect(p5, "RPAREN", undefined), LAMBDA p6 :
                LET p7 == generateId(match(p6, "SEMICOLON", undefined))
                IN  complete(p7, "parseConnection",
                             Element("connection", src.name \o "->" \o tgt.name,
                                     lastId(p7), parent,
                            [source |-> src.name, target |-> tgt.name]))))))))

\* parser.ts 523-544
parseBind(p, parent) ==
    Then(expect(p, "KEYWORD", "bind"), LAMBDA p1 :
        LET src == parseQualifiedName(p1)
        IN  Then(src.p, LAMBDA p2 :
            Then(expect(p2, "EQUALS", undefined), LAMBDA p3 :
            LET tgt == parseQualifiedName(p3)
            IN  Then(tgt.p, LAMBDA p4 :
                LET p5 == generateId(match(p4, "SEMICOLON", undefined))
                IN  complete(p5, "parseBind",
                             Element("bind", src.name \o "=" \o tgt.name,
                                     lastId(p5), parent,
                            [source |-> src.name, target |-> tgt.name]))))))

\* The condition of the body loops: while (!check('RBRACE') && !check('EOF')).
inBody(p) == ~check(p, "RBRACE", undefined) /\ ~check(p, "EOF", undefined)

\* A return that takes the end of the tokens to follow the root package.
returnAtEnd(p) ==
    IF ~check(p, "EOF", undefined) THEN expect(p, "EOF", undefined)
    ELSE [p EXCEPT !.status = "returned", !.returned = p.model,
                   !.frames = <<>>, !.pc = "idle"]

\* parse returns this.model (parser.ts 37).
return(p) ==
    [p EXCEPT !.status = "returned", !.returned = p.model, !.frames = <<>>,
              !.pc = "idle"]

\* reset that leaves the COMMENT tokens in.
resetKeepingComments(p, src) ==
    [p EXCEPT !.tokens = tokenize(src),
              !.pos = 0,
              !.heap = Append(@, NewModel),
              !.model = Len(p.heap) + 1,
              !.idCounter = 0,
              !.status = "running", !.error = undefined, !.returned = 0]

\* reset that empties the Model object in hand instead of making a new one.
resetClearingModel(p, src) ==
    [p EXCEPT !.tokens = SelectSeq(tokenize(src), LAMBDA t : t.type # "COMMENT"),
              !.pos = 0,
              !.heap[p.model] = NewModel,
              !.idCounter = 0,
              !.status = "running", !.error = undefined, !.returned = 0]

\* reset that lets the id generator run on from the call before.
resetKeepingIds(p, src) ==
    [p EXCEPT !.tokens = SelectSeq(tokenize(src), LAMBDA t : t.type # "COMMENT"),
              !.pos = 0,
              !.heap = Append(@, NewModel),
              !.model = Len(p.heap) + 1,
              !.status = "running", !.error = undefined, !.returned = 0]

\* reset that leaves the cursor where the call before left it.
resetKeepingCursor(p, src) ==
    [p EXCEPT !.tokens = SelectSeq(tokenize(src), LAMBDA t : t.type # "COMMENT"),
              !.heap = Append(@, NewModel),
              !.model = Len(p.heap) + 1,
              !.idCounter = 0,
              !.status = "running", !.error = undefined, !.returned = 0]

\* What parse does to the instance's fields before parsing (parser.ts 27-30).
reset(p, src) ==
    [p EXCEPT !.tokens = SelectSeq(tokenize(src), LAMBDA t : t.type # "COMMENT"),
              !.pos = 0,
              !.heap = Append(@, NewModel),
              !.model = Len(p.heap) + 1,
              !.idCounter = 0,
              !.status = "running", !.error = undefined, !.returned = 0]

\* parsePackage that leaves rootPackage unset.
parsePackageRootless(p) ==
    Then(expect(p, "KEYWORD", "package"), LAMBDA p1 :
    Then(expect(p1, "IDENTIFIER", undefined), LAMBDA p2 :
        LET p3  == generateId(p2)
            id  == lastId(p3)
            pkg == Element("package", current(p1).value, id, undefined, none)
            p4  == setElement(p3, pkg)
        IN  Then(expect(p4, "LBRACE", undefined), LAMBDA p5 :
                pushFrame(p5, "parsePackage", [id |-> id], "packageBody"))))

\* parser.ts 79-101, up to the body loop (no caller passes a parent)
parsePackage(p) ==
    Then(expect(p, "KEYWORD", "package"), LAMBDA p1 :
    Then(expect(p1, "IDENTIFIER", undefined), LAMBDA p2 :
        LET p3  == generateId(p2)
            id  == lastId(p3)
            pkg == Element("package", current(p1).value, id, undefined, none)
            p4  == [setElement(p3, pkg) EXCEPT !.heap[p3.model].rootPackage = id]
        IN  Then(expect(p4, "LBRACE", undefined), LAMBDA p5 :
                pushFrame(p5, "parsePackage", [id |-> id], "packageBody"))))

\* parse that calls parsePackage whatever the first token is.
parseUnguarded(p, src) == parsePackage(reset(p, src))

\* parser.ts 26-38, up to the package body loop
parse(p, src) ==
    LET p1 == reset(p, src)
    IN  IF check(p1, "KEYWORD", "package") THEN parsePackage(p1) ELSE return(p1)

\* One iteration of the loop of parsePackageBody (parser.ts 106-135) or,
\* when its condition fails, the rest of parsePackage and of parse.
packageBodyStep(p) ==
    LET id == parentId(p)
    IN  IF ~inBody(p) THEN
            Then(expect(p, "RBRACE", undefined), LAMBDA p1 : return(p1))
        ELSE IF check(p, "KEYWORD", "item") /\ lookAhead(p, "KEYWORD", "def") THEN
            parseItemDef(p, id)
        ELSE IF check(p, "KEYWORD", "port") /\ lookAhead(p, "KEYWORD", "def") THEN
            parsePortDef(p, id)
        ELSE IF check(p, "KEYWORD", "part") /\ lookAhead(p, "KEYWORD", "def") THEN
            parsePartDef(p, id)
        ELSE IF check(p, "KEYWORD", "part") THEN
            parsePart(p, id)
        ELSE IF check(p, "KEYWORD", "requirement") /\ lookAhead(p, "KEYWORD", "def") THEN
            parseRequirementDef(p, id)
        ELSE IF check(p, "KEYWORD", "state") /\ lookAhead(p, "KEYWORD", "def") THEN
            parseStateDef(p, id)
        ELSE IF check(p, "KEYWORD", "interface") THEN
            parseConnection(p, id)
        ELSE IF check(p, "KEYWORD", "bind") THEN
            parseBind(p, id)
        ELSE
            advance(p)

\* One iteration of the body loop of parseItemDef (parser.ts 163-165) or,
\* when its condition fails, the rest of parseItemDef (166, 171-172).
itemDefBodyStep(p) ==
    IF inBody(p) THEN advance(p)
    ELSE Then(expect(p, "RBRACE", undefined), LAMBDA p1 :
            complete(popFrame(p1), "parseItemDef", topFrame(p).local))

\* One iteration of the body loop of parsePortDef (parser.ts 192-207) or,
\* when its condition fails, the rest of parsePortDef (208, 213-214).
portDefBodyStep(p) ==
    LET portDef == topFrame(p).local
    IN  IF ~inBody(p) THEN
            Then(expect(p, "RBRACE", undefined), LAMBDA p1 :
                complete(popFrame(p1), "parsePortDef", portDef))
        ELSE IF \/ check(p, "KEYWORD", "inout") \/ check(p, "KEYWORD", "in")
                \/ check(p, "KEYWORD", "out") THEN
            LET direction == current(p).value
                p1 == advance(p)
            IN  IF ~check(p1, "KEYWORD", "item") THEN p1
                ELSE
                Then(expect(advance(p1), "IDENTIFIER", undefined), LAMBDA p2 :
                    LET itemName == current(advance(p1)).value
                    IN  IF ~check(p2, "COLON", undefined)
                        THEN match(p2, "SEMICOLON", undefined)
                        ELSE
                        Then(expect(advance(p2), "IDENTIFIER", undefined), LAMBDA p3 :
                            LET itemType == current(advance(p2)).value
                                decl == direction \o " " \o itemName \o ": " \o itemType
                            IN  match(setLocal(p3, [portDef EXCEPT !.items = Append(@, decl)]),
                                      "SEMICOLON", undefined)))
        ELSE
            advance(p)

\* One iteration of the loop of parsePartDefBody (parser.ts 246-267) or,
\* when its condition fails, the rest of parsePartDef (236, 241-242).
partDefBodyStep(p) ==
    LET partDef == topFrame(p).local
    IN  IF ~inBody(p) THEN
            Then(expect(p, "RBRACE", undefined), LAMBDA p1 :
                complete(popFrame(p1), "parsePartDef", partDef))
        ELSE IF check(p, "KEYWORD", "port") THEN
            parsePort(p, partDef.id)
        ELSE IF check(p, "KEYWORD", "part") THEN
            parsePart(p, partDef.id)
        ELSE IF check(p, "KEYWORD", "state") /\ lookAhead(p, "KEYWORD", "def") THEN
            parseStateDef(p, partDef.id)
        ELSE IF check(p, "KEYWORD", "interface") THEN
            parseConnection(p, partDef.id)
        ELSE IF check(p, "KEYWORD", "bind") THEN
            parseBind(p, partDef.id)
        ELSE
            advance(p)

\* One iteration of the body loop of parseRequirementDef (parser.ts 343-357)
\* or, when its condition fails, the rest of it (358, 361-362).
requirementDefBodyStep(p) ==
    LET req == topFrame(p).local
    IN  IF ~inBody(p) THEN
            Then(expect(p, "RBRACE", undefined), LAMBDA p1 :
                complete(popFrame(p1), "parseRequirementDef", req))
        ELSE IF check(p, "KEYWORD", "id") THEN
            Then(expect(advance(p), "EQUALS", undefined), LAMBDA p1 :
            Then(expect(p1, "STRING", undefined), LAMBDA p2 :
                match(setLocal(p2, [req EXCEPT !.reqId = current(p1).value]),
                      "SEMICOLON", undefined)))
        ELSE IF check(p, "KEYWORD", "text") THEN
            Then(expect(advance(p), "EQUALS", undefined), LAMBDA p1 :
            Then(expect(p1, "STRING", undefined), LAMBDA p2 :
                match(setLocal(p2, [req EXCEPT !.text = current(p1).value]),
                      "SEMICOLON", undefined)))
        ELSE
            advance(p)

\* One iteration of the loop of parseStateDefBody (parser.ts 392-412) or,
\* when its condition fails, the rest of parseStateDef (384, 387-388).
stateDefBodyStep(p) ==
    LET stateDef == topFrame(p).local
    IN  IF ~inBody(p) THEN
            Then(expect(p, "RBRACE", undefined), LAMBDA p1 :
                complete(popFrame(p1), "parseStateDef", stateDef))
        ELSE IF check(p, "KEYWORD", "state") THEN
            parseState(p, stateDef.id)
        ELSE IF check(p, "KEYWORD", "transition") THEN
            parseTransition(p, stateDef.id)
        ELSE IF check(p, "KEYWORD", "entry") THEN
            LET p1 == match(advance(p), "SEMICOLON", undefined)
            IN  IF ~check(p1, "KEYWORD", "then") THEN p1
                ELSE Then(expect(advance(p1), "IDENTIFIER", undefined), LAMBDA p2 :
                        match(p2, "SEMICOLON", undefined))
        ELSE
            advance(p)

\* One iteration of the body loop of parseState (parser.ts 430-443), up to
\* the loop over an entry action's body, or, when its condition fails, the
\* rest of parseState (444, 447-448).
stateBodyStep(p) ==
    LET state == topFrame(p).local
    IN  IF ~inBody(p) THEN
            Then(expect(p, "RBRACE", undefined), LAMBDA p1 :
                complete(popFrame(p1), "parseState", state))
        ELSE IF check(p, "KEYWORD", "entry") THEN
            LET p1 == advance(p)
            IN  IF ~check(p1, "KEYWORD", "action") THEN p1
                ELSE
                Then(expect(advance(p1), "IDENTIFIER", undefined), LAMBDA p2 :
                    LET p3 == setLocal(p2, [state EXCEPT
                                                !.entryAction = current(advance(p1)).value])
                    IN  IF check(p3, "LBRACE", undefined)
                        THEN [advance(p3) EXCEPT !.pc = "actionBody"]
                        ELSE p3)
        ELSE
            advance(p)

\* One iteration of the loop over an entry action's body (parser.ts 436) or,
\* when its condition fails, the expect that follows it (437).
actionBodyStep(p) ==
    IF ~check(p, "RBRACE", undefined) THEN advance(p)
    ELSE Then(expect(p, "RBRACE", undefined), LAMBDA p1 :
            [p1 EXCEPT !.pc = "stateBody"])

\* transitionStep that takes `then` for the clause of the source.
transitionStepThenIsSource(p) ==
    LET transition == topFrame(p).local
    IN  IF \/ check(p, "SEMICOLON", undefined) \/ check(p, "RBRACE", undefined)
           \/ check(p, "EOF", undefined) THEN
            complete(popFrame(match(p, "SEMICOLON", undefined)),
                     "parseTransition", transition)
        ELSE IF check(p, "KEYWORD", "first") THEN
            Then(expect(advance(p), "IDENTIFIER", undefined), LAMBDA p1 :
                setLocal(p1, [transition EXCEPT !.target = current(advance(p)).value]))
        ELSE IF check(p, "KEYWORD", "accept") THEN
            Then(expect(advance(p), "IDENTIFIER", undefined), LAMBDA p1 :
                setLocal(p1, [transition EXCEPT !.trigger = current(advance(p)).value]))
        ELSE IF check(p, "KEYWORD", "then") THEN
            Then(expect(advance(p), "IDENTIFIER", undefined), LAMBDA p1 :
                setLocal(p1, [transition EXCEPT !.source = current(advance(p)).value]))
        ELSE
            advance(p)

\* transitionStep that keeps what the first clause of a kind has set.
transitionStepFirstWins(p) ==
    LET transition == topFrame(p).local
    IN  IF \/ check(p, "SEMICOLON", undefined) \/ check(p, "RBRACE", undefined)
           \/ check(p, "EOF", undefined) THEN
            complete(popFrame(match(p, "SEMICOLON", undefined)),
                     "parseTransition", transition)
        ELSE IF check(p, "KEYWORD", "first") THEN
            Then(expect(advance(p), "IDENTIFIER", undefined), LAMBDA p1 :
                setLocal(p1, [transition EXCEPT !.source =
                    IF @ = "" THEN current(advance(p)).value ELSE @]))
        ELSE IF check(p, "KEYWORD", "accept") THEN
            Then(expect(advance(p), "IDENTIFIER", undefined), LAMBDA p1 :
                setLocal(p1, [transition EXCEPT !.trigger =
                    IF @ = undefined THEN current(advance(p)).value ELSE @]))
        ELSE IF check(p, "KEYWORD", "then") THEN
            Then(expect(advance(p), "IDENTIFIER", undefined), LAMBDA p1 :
                setLocal(p1, [transition EXCEPT !.target =
                    IF @ = "" THEN current(advance(p)).value ELSE @]))
        ELSE
            advance(p)

\* One iteration of the clause loop of parseTransition (parser.ts 460-470)
\* or, when its condition fails, the rest of it (471-486).
transitionStep(p) ==
    LET transition == topFrame(p).local
    IN  IF \/ check(p, "SEMICOLON", undefined) \/ check(p, "RBRACE", undefined)
           \/ check(p, "EOF", undefined) THEN
            complete(popFrame(match(p, "SEMICOLON", undefined)),
                     "parseTransition", transition)
        ELSE IF check(p, "KEYWORD", "first") THEN
            Then(expect(advance(p), "IDENTIFIER", undefined), LAMBDA p1 :
                setLocal(p1, [transition EXCEPT !.source = current(advance(p)).value]))
        ELSE IF check(p, "KEYWORD", "accept") THEN
            Then(expect(advance(p), "IDENTIFIER", undefined), LAMBDA p1 :
                setLocal(p1, [transition EXCEPT !.trigger = current(advance(p)).value]))
        ELSE IF check(p, "KEYWORD", "then") THEN
            Then(expect(advance(p), "IDENTIFIER", undefined), LAMBDA p1 :
                setLocal(p1, [transition EXCEPT !.target = current(advance(p)).value]))
        ELSE
            advance(p)

\* One iteration of the skip loop of parseConnection (parser.ts 493-495) or,
\* when its condition fails, the return of null (496-497).
connectionSkipStep(p) ==
    IF \/ check(p, "SEMICOLON", undefined) \/ check(p, "RBRACE", undefined)
       \/ check(p, "EOF", undefined)
    THEN returnTo(popFrame(match(p, "SEMICOLON", undefined)), "parseConnection", null)
    ELSE advance(p)

\* ----------------------------------------------------------------- inputs

\* The spelling of the words the source texts are written with; any other
\* word is a single character.
Spell ==
    "package" :> <<"p", "a", "c", "k", "a", "g", "e">> @@
    "part" :> <<"p", "a", "r", "t">> @@
    "def" :> <<"d", "e", "f">> @@
    "port" :> <<"p", "o", "r", "t">> @@
    "item" :> <<"i", "t", "e", "m">> @@
    "requirement" :> <<"r", "e", "q", "u", "i", "r", "e", "m", "e", "n", "t">> @@
    "state" :> <<"s", "t", "a", "t", "e">> @@
    "transition" :> <<"t", "r", "a", "n", "s", "i", "t", "i", "o", "n">> @@
    "interface" :> <<"i", "n", "t", "e", "r", "f", "a", "c", "e">> @@
    "connect" :> <<"c", "o", "n", "n", "e", "c", "t">> @@
    "bind" :> <<"b", "i", "n", "d">> @@
    "entry" :> <<"e", "n", "t", "r", "y">> @@
    "then" :> <<"t", "h", "e", "n">> @@
    "first" :> <<"f", "i", "r", "s", "t">> @@
    "accept" :> <<"a", "c", "c", "e", "p", "t">> @@
    "action" :> <<"a", "c", "t", "i", "o", "n">> @@
    "in" :> <<"i", "n">> @@
    "out" :> <<"o", "u", "t">> @@
    "id" :> <<"i", "d">> @@
    "text" :> <<"t", "e", "x", "t">> @@
    "\"A\"" :> <<"\"", "A", "\"">> @@
    "\"B\"" :> <<"\"", "B", "\"">> @@
    "//" :> <<"/", "/">> @@
    "/*" :> <<"/", "*">> @@
    "*/" :> <<"*", "/">> @@
    "p1" :> <<"p", "1">> @@
    "p2" :> <<"p", "2">>

spell(word) == IF word \in DOMAIN Spell THEN Spell[word] ELSE <<word>>

\* The text of a phrase: its words, a space between each two.
RECURSIVE text(_)
text(phrase) ==
    IF phrase = <<>> THEN <<>>
    ELSE IF Len(phrase) = 1 THEN spell(Head(phrase))
    ELSE spell(Head(phrase)) \o <<" ">> \o text(Tail(phrase))

RECURSIVE flatten(_)
flatten(phrases) ==
    IF phrases = <<>> THEN <<>> ELSE Head(phrases) \o flatten(Tail(phrases))

\* All sequences of at most n elements of the sequence alphabet.
RECURSIVE seqsUpTo(_, _)
seqsUpTo(alphabet, n) ==
    IF n = 0 THEN {<<>>}
    ELSE LET shorter == seqsUpTo(alphabet, n - 1)
         IN  shorter \cup {Append(s, alphabet[i]) : s \in shorter, i \in 1..Len(alphabet)}

\* The source texts are written family by family: an opening context, then
\* at most MaxTail + more phrases of the family's alphabet, then the
\* context's closing braces or nothing (the text ends inside the construct).
Families == <<
    \* whole files: with and without a leading package
    [open  |-> <<>>,
     close |-> <<"}">>,
     more  |-> 0,
     alphabet |-> << <<"package">>, <<"P", "{">>, <<"}">>, <<"part", "def">>,
                     <<"A", ";">>, <<"{">>, <<"/*", "c", "\n", "*/">> >>],
    \* the body of a package: definitions and usages
    [open  |-> <<"package", "P", "{">>,
     close |-> <<"}">>,
     more  |-> 0,
     alphabet |-> << <<"part", "def", "A", ";">>, <<"part", "def">>, <<"{", "}">>,
                     <<"package", "Q", "{">>,
                     <<"part", "a", ":", "B", "[", "2", "]", ";">>,
                     <<"\n">> >>],
    \* the body of a package: connections, binds, port and item definitions
    [open  |-> <<"package", "P", "{">>,
     close |-> <<"}">>,
     more  |-> 0,
     alphabet |-> << <<"interface", "connect", "(", "a", ".", "b", ",", "c", ")", ";">>,
                     <<"interface">>,
                     <<"bind", "a", "=", "b", ".", "c", ";">>,
                     <<"port", "def", "D", ";">>, <<"item", "def", "I", ";">>,
                     <<"connect", "(", "a">> >>],
    \* the body of a part definition: port and part usages
    [open  |-> <<"package", "P", "{", "part", "def", "A", "{">>,
     close |-> <<"}", "}">>,
     more  |-> 1,
     alphabet |-> << <<"port", "p1", ";">>, <<"port", "p2", ":", "T", ";">>,
                     <<"part", "a", ";">>,
                     <<"part", "b", ":", "B", "[", "2", "]", ";">> >>],
    \* the body of a part definition: whatever else it dispatches on
    [open  |-> <<"package", "P", "{", "part", "def", "A", "{">>,
     close |-> <<"}", "}">>,
     more  |-> 0,
     alphabet |-> << <<"state", "def", "M", "{", "state", "S", ";", "}">>,
                     <<"interface", "connect", "(", "a", ",", "b", ")">>,
                     <<"bind", "a", "=", "b", ";">>,
                     <<"port", "p1", ";">>, <<"port", "def", "D", ";">>,
                     <<"interface", "x", "{", "}", ";">> >>],
    \* the body of a state machine definition: states, transitions and the
    \* initial state shorthand
    [open  |-> <<"package", "P", "{", "state", "def", "M", "{">>,
     close |-> <<"}", "}">>,
     more  |-> 1,
     alphabet |-> << <<"state", "S">>, <<"state", "U", "{", "}">>,
                     <<"entry", ";", "then", "S", ";">>,
                     <<"transition", "t", "first", "S", "accept", "g", "then", "U", ";">> >>],
    \* the body of a state machine definition: statements cut short
    [open  |-> <<"package", "P", "{", "state", "def", "M", "{">>,
     close |-> <<"}", "}">>,
     more  |-> 0,
     alphabet |-> << <<"state", "S">>,
                     <<"transition", "t", "first", "S", "accept", "g", "then", "U", ";">>,
                     <<"transition", "t", "then", "S">>, <<"first", "U", "then">>,
                     <<"then", "U", "first", "U", ";">> >>],
    \* the body of a state
    [open  |-> <<"package", "P", "{", "state", "def", "M", "{", "state", "U", "{">>,
     close |-> <<"}", "}", "}">>,
     more  |-> 0,
     alphabet |-> << <<"entry", "action", "X">>, <<"{">>, <<"}">>, <<"{", "}">>,
                     <<"entry">>, <<"state", "S">> >>],
    \* the bodies of item, port and requirement definitions
    [open  |-> <<"package", "P", "{">>,
     close |-> <<"}", "}">>,
     more  |-> 0,
     alphabet |-> << <<"item", "def", "I", "{">>, <<"port", "def", "D", "{">>,
                     <<"requirement", "def", "R", "{">>,
                     <<"in", "item", "i", ":", "T", ";">>,
                     <<"id", "=", "\"A\"", ";">>, <<"text", "=", "\"B\"">> >>]
>>

\* The texts of family f with at most n phrases after the opening, as words.
familySources(f, n) ==
    { f.open \o flatten(tail) \o closing :
        tail \in seqsUpTo(f.alphabet, n + f.more), closing \in {<<>>, f.close} }

Sources == UNION { familySources(Families[i], MaxTail) : i \in 1..Len(Families) }

\* The characters the stand-alone lexer is given strings of.
LexAlphabet == <<"i", "1", ".", "/", "*", "\"", "\n", "#">>

LexSources == seqsUpTo(LexAlphabet, MaxSrcLen)

\* The loop the running call is in, gone round once.
step(p) ==
    CASE p.pc = "packageBody" -> packageBodyStep(p)
      [] p.pc = "itemDefBody" -> itemDefBodyStep(p)
      [] p.pc = "portDefBody" -> portDefBodyStep(p)
      [] p.pc = "partDefBody" -> partDefBodyStep(p)
      [] p.pc = "requirementDefBody" -> requirementDefBodyStep(p)
      [] p.pc = "stateDefBody" -> stateDefBodyStep(p)
      [] p.pc = "stateBody" -> stateBodyStep(p)
      [] p.pc = "actionBody" -> actionBodyStep(p)
      [] p.pc = "transitionLoop" -> transitionStep(p)
      [] p.pc = "connectionSkip" -> connectionSkipStep(p)

\* A call followed to its end, or as far as the actions follow it.
RECURSIVE run(_)
run(p) ==
    IF p.status = "running" /\ p.pos < Len(p.tokens) + MaxOverrun
    THEN run(step(p))
    ELSE p

\* ---------------------------------------------------------- specification

\* The outcome of the call that has just ended, appended to the outcomes so
\* far: how it ended, on which instance, the Model object returned and its
\* value at that time.
record(h, src, p) ==
    IF p.status \in {"returned", "raised"}
    THEN Append(h, [source |-> src, status |-> p.status, error |-> p.error,
                    returned |-> p.returned, instance |-> p.instance,
                    idCounter |-> p.idCounter,
                    model |-> IF p.status = "returned" THEN p.heap[p.returned]
                              ELSE undefined])
    ELSE h

Init ==
    /\ \E words \in Sources : source = text(words)
    /\ lexer = LexIdle
    /\ parser = NewParser
    /\ history = <<>>
    /\ store = NewStore

\* new SysMLParser().parse(source), the start of the call
Parse ==
    /\ parser.status = "idle"
    /\ lexer' = LexReturned(tokenize(source))
    /\ parser' = parse(parser, source)
    /\ history' = record(history, source, parser')
    /\ UNCHANGED <<source, store>>

\* The running call is in loop pc.  A scan that has run past the last token
\* is followed for MaxOverrun tokens.
inLoop(pc) ==
    /\ parser.status = "running"
    /\ parser.pc = pc
    /\ parser.pos < Len(parser.tokens) + MaxOverrun

\* The running call goes once round the loop it is in.
PackageBody ==
    /\ inLoop("packageBody")
    /\ parser' = packageBodyStep(parser)
    /\ history' = record(history, source, parser')
    /\ UNCHANGED <<source, lexer, store>>

ItemDefBody ==
    /\ inLoop("itemDefBody")
    /\ parser' = itemDefBodyStep(parser)
    /\ history' = record(history, source, parser')
    /\ UNCHANGED <<source, lexer, store>>

PortDefBody ==
    /\ inLoop("portDefBody")
    /\ parser' = portDefBodyStep(parser)
    /\ history' = record(history, source, parser')
    /\ UNCHANGED <<source, lexer, store>>

PartDefBody ==
    /\ inLoop("partDefBody")
    /\ parser' = partDefBodyStep(parser)
    /\ history' = record(history, source, parser')
    /\ UNCHANGED <<source, lexer, store>>

RequirementDefBody ==
    /\ inLoop("requirementDefBody")
    /\ parser' = requirementDefBodyStep(parser)
    /\ history' = record(history, source, parser')
    /\ UNCHANGED <<source, lexer, store>>

StateDefBody ==
    /\ inLoop("stateDefBody")
    /\ parser' = stateDefBodyStep(parser)
    /\ history' = record(history, source, parser')
    /\ UNCHANGED <<source, lexer, store>>

StateBody ==
    /\ inLoop("stateBody")
    /\ parser' = stateBodyStep(parser)
    /\ history' = record(history, source, parser')
    /\ UNCHANGED <<source, lexer, store>>

ActionBody ==
    /\ inLoop("actionBody")
    /\ parser' = actionBodyStep(parser)
    /\ history' = record(history, source, parser')
    /\ UNCHANGED <<source, lexer, store>>

TransitionClauses ==
    /\ inLoop("transitionLoop")
    /\ parser' = transitionStep(parser)
    /\ history' = record(history, source, parser')
    /\ UNCHANGED <<source, lexer, store>>

ConnectionSkip ==
    /\ inLoop("connectionSkip")
    /\ parser' = connectionSkipStep(parser)
    /\ history' = record(history, source, parser')
    /\ UNCHANGED <<source, lexer, store>>

Next ==
    \/ Parse
    \/ PackageBody
    \/ ItemDefBody
    \/ PortDefBody
    \/ PartDefBody
    \/ RequirementDefBody
    \/ StateDefBody
    \/ StateBody
    \/ ActionBody
    \/ TransitionClauses
    \/ ConnectionSkip

Spec == Init /\ [][Next]_vars

\* ------------------------------------ specification of successive calls

\* The families a reused parser is first given texts of: whole files, the
\* two bodies with usages and definitions, and statements cut short.
ReuseFamilies == {1, 2, 4, 7}

\* The texts a first call is given, and the texts a later call is given when
\* it is not given the text of the call before it.
ReuseSources == UNION { familySources(Families[i], MaxReuseTail) : i \in ReuseFamilies }

LaterSources ==
    { <<>>,
      <<"package", "P", "{", "part", "def", "A", ";", "part", "a", ";", "}">>,
      <<"package", "P", "{", "part", "def", "{", "}", "}">> }

\* The texts the next call may be given.
nextSources ==
    IF history = <<>> THEN { text(words) : words \in ReuseSources }
    ELSE {source} \cup { text(words) : words \in LaterSources }

InitReuse ==
    /\ source = <<>>
    /\ lexer = LexIdle
    /\ parser = NewParser
    /\ history = <<>>
    /\ store = NewStore

\* A call may start when the one before it has ended.
callable ==
    /\ parser.status # "running"
    /\ Len(history) < MaxCalls

\* parser.parse(src) on the instance already in hand, followed to its end.
ParseAgain ==
    /\ callable
    /\ \E src \in nextSources :
        /\ source' = src
        /\ lexer' = LexReturned(tokenize(src))
        /\ parser' = run(parse(parser, src))
        /\ history' = record(history, src, parser')
        /\ UNCHANGED store

\* A SysMLParser constructed beside the objects already allocated
\* (parser.ts 21-24, 556).
newSysMLParser(p) ==
    [NewParser EXCEPT !.heap = Append(p.heap, NewModel),
                      !.model = Len(p.heap) + 1,
                      !.instance = p.instance + 1]

\* parseSysML(source) (parser.ts 555-558), followed to its end: the parser
\* it constructed, which holds the Model returned or the error thrown.
parseSysML(p, src) == run(parse(newSysMLParser(p), src))

\* A call of parseSysML(src).
ParseSysML ==
    /\ callable
    /\ \E src \in nextSources :
        /\ source' = src
        /\ lexer' = LexReturned(tokenize(src))
        /\ parser' = parseSysML(parser, src)
        /\ history' = record(history, src, parser')
        /\ UNCHANGED store

NextReuse == ParseAgain \/ ParseSysML

SpecReuse == InitReuse /\ [][NextReuse]_vars

\* -------------------------------------------- specification of the lexer

InitLex ==
    /\ source \in LexSources
    /\ lexer = LexStart(source)
    /\ parser = NewParser
    /\ history = <<>>
    /\ store = NewStore

\* tokenize goes once round its loop.
LexLoop ==
    /\ ~lexer.done
    /\ lexer.pos < Len(lexer.source)
    /\ lexer' = LexIteration(lexer)
    /\ UNCHANGED <<source, parser, history, store>>

\* tokenize leaves its loop and returns.
LexReturn ==
    /\ ~lexer.done
    /\ ~(lexer.pos < Len(lexer.source))
    /\ lexer' = LexFinish(lexer)
    /\ UNCHANGED <<source, parser, history, store>>

NextLex == LexLoop \/ LexReturn

\* A running call keeps running: the code is synchronous.
SpecLex == InitLex /\ [][NextLex]_vars /\ WF_vars(NextLex)

\* ------------------------------------------------------------ model store

\* getChildren that gives the last child first.
getChildrenReversed(model, id) ==
    IF model = <<>> THEN <<>>
    ELSE IF ~mapHas(model[1].elements, id) THEN <<>>
    ELSE LET element  == mapGet(model[1].elements, id)
             resolved == SelectSeq(element.children,
                            LAMBDA childId : mapHas(model[1].elements, childId))
         IN  [i \in 1..Len(resolved) |->
                mapGet(model[1].elements, resolved[Len(resolved) + 1 - i])]

\* getChildren(id) of the model store (part_005 43-49); model is the store's
\* model, <<>> when none is loaded and <<m>> when Model m is.
getChildren(model, id) ==
    IF model = <<>> THEN <<>>
    ELSE IF ~mapHas(model[1].elements, id) THEN <<>>
    ELSE LET element  == mapGet(model[1].elements, id)
             resolved == SelectSeq(element.children,
                            LAMBDA childId : mapHas(model[1].elements, childId))
         IN  [i \in 1..Len(resolved) |-> mapGet(model[1].elements, resolved[i])]

\* getRootElements() (part_005 51-54)
getRootElements(model) ==
    IF model = <<>> THEN <<>>
    ELSE IF model[1].rootPackage = undefined THEN <<>>
    ELSE getChildren(model, model[1].rootPackage)

\* getPartDefs() (part_005 56-59)
getPartDefs(model) ==
    IF model = <<>> THEN <<>>
    ELSE SelectSeq(mapValues(model[1].elements), LAMBDA e : e.type = "part_def")

\* getConnections that leaves the binds out.
getConnectionsUnbound(model) ==
    IF model = <<>> THEN <<>>
    ELSE SelectSeq(mapValues(model[1].elements), LAMBDA e : e.type = "connection")

\* getConnections() (part_005 61-66)
getConnections(model) ==
    IF model = <<>> THEN <<>>
    ELSE SelectSeq(mapValues(model[1].elements),
                   LAMBDA e : e.type = "connection" \/ e.type = "bind")

\* loadModel that drops the model when the source does not parse.
loadModelClearing(st, parsed) ==
    IF parsed.status = "returned"
    THEN [st EXCEPT !.model = <<parsed.heap[parsed.returned]>>,
                    !.selectedElement = null]
    ELSE [st EXCEPT !.model = <<>>, !.console = Append(@, parsed.error)]

\* loadModel that leaves the selection as it was.
loadModelKeepingSelection(st, parsed) ==
    IF parsed.status = "returned"
    THEN [st EXCEPT !.model = <<parsed.heap[parsed.returned]>>]
    ELSE [st EXCEPT !.console = Append(@, parsed.error)]

\* loadModel(source) (part_005 25-33), parsed being parseSysML(source): the
\* try sets the model and clears the selection, the catch hands the error
\* to console.error and lets nothing out.
loadModel(st, parsed) ==
    IF parsed.status = "returned"
    THEN [st EXCEPT !.model = <<parsed.heap[parsed.returned]>>,
                    !.selectedElement = null]
    ELSE [st EXCEPT !.console = Append(@, parsed.error)]

\* selectElement(id) (part_005 35-37)
selectElement(st, id) == [st EXCEPT !.selectedElement = id]

\* setViewMode(mode) (part_005 23)
setViewMode(st, mode) == [st EXCEPT !.viewMode = mode]

\* ------------------------------------------- specification of the store

\* How many sources the store is given.
MaxLoads == 2

\* The sources the store is given: two that do not parse, the empty source
\* and three with part definitions, connections and binds.
StoreSources ==
    { text(words) : words \in
        { <<>>,
          <<"package", "P", "{", "part", "def", "{", "}", "}">>,
          <<"package", "P", "{", "part", "def", "A", ";">>,
          <<"package", "P", "{", "part", "def", "A", ";", "part", "a", ":", "A", ";", "}">>,
          <<"package", "P", "{", "part", "def", "A", "{", "part", "b", ":", "B", ";",
            "interface", "connect", "(", "b", ".", "p", ",", "q", ")", ";", "}",
            "part", "def", "B", ";", "bind", "a", "=", "b", ";", "}">>,
          <<"package", "P", "{", "interface", "connect", "(", "a", ",", "b", ")", ";",
            "port", "def", "D", ";", "}">> } }

\* The ids the user interface selects: none, three a Model may hold and one
\* no Model holds.
Selectable == {null, "elem_1", "elem_2", "elem_4", "elem_9"}

InitStore ==
    /\ source = <<>>
    /\ lexer = LexIdle
    /\ parser = NewParser
    /\ history = <<>>
    /\ store = NewStore

\* The user interface loads a source.
LoadModel ==
    /\ Len(history) < MaxLoads
    /\ \E src \in StoreSources :
        /\ source' = src
        /\ lexer' = LexReturned(tokenize(src))
        /\ parser' = parseSysML(parser, src)
        /\ history' = record(history, src, parser')
        /\ store' = loadModel(store, parser')

\* The user interface selects an element, or none.
SelectElement ==
    /\ \E id \in Selectable : store' = selectElement(store, id)
    /\ UNCHANGED <<source, lexer, parser, history>>

\* The user interface switches the view.
SetViewMode ==
    /\ \E mode \in {"sysml", "simplified"} : store' = setViewMode(store, mode)
    /\ UNCHANGED <<source, lexer, parser, history>>

NextStore == LoadModel \/ SelectElement \/ SetViewMode

SpecStore == InitStore /\ [][NextStore]_vars

\* ---------------------------------- specification of the user interface

\* The ids of the rows TreeNode renders for element id and below it, every
\* row expanded: the row of the element, and the rows of its children that
\* are no connection, bind or transition (Explorer.tsx 36-84).
RECURSIVE TreeNode(_, _)
TreeNode(model, id) ==
    LET children == getChildren(model, id)
        visibleChildren ==
            SelectSeq(children,
                      LAMBDA c : c.type \notin {"connection", "bind", "transition"})
    IN  {id} \cup UNION { TreeNode(model, child.id) : child \in Range(visibleChildren) }

\* The ids of the rows of the Explorer (Explorer.tsx 86-116): none without a
\* model or a root package.
Explorer(model) ==
    IF model = <<>> THEN {}
    ELSE IF model[1].rootPackage = undefined THEN {}
    ELSE TreeNode(model, model[1].rootPackage)

\* The ids of the nodes of the DiagramCanvas: one for each part definition
\* (part_002 41-74).
DiagramCanvas(model) == { partDef.id : partDef \in Range(getPartDefs(model)) }

\* A click on a row of the explorer (Explorer.tsx 56).
TreeNodeClick ==
    /\ \E id \in Explorer(store.model) : store' = selectElement(store, id)
    /\ UNCHANGED <<source, lexer, parser, history>>

\* A click on a node of the diagram (part_002 119-124).
onNodeClick ==
    /\ \E id \in DiagramCanvas(store.model) : store' = selectElement(store, id)
    /\ UNCHANGED <<source, lexer, parser, history>>

\* A click on the pane of the diagram, which is there once a model is
\* loaded (part_002 126-139).
onPaneClick ==
    /\ store.model # <<>>
    /\ store' = selectElement(store, null)
    /\ UNCHANGED <<source, lexer, parser, history>>

NextUI == LoadModel \/ TreeNodeClick \/ onNodeClick \/ onPaneClick \/ SetViewMode

SpecUI == InitStore /\ [][NextUI]_vars

\* ------------------------------------- specification of commented sources

\* The words the tokens were written with, a string between its quotes;
\* comments and the EOF token are no words.
wordsOf(tokens) ==
    LET words == SelectSeq(tokens, LAMBDA t : t.type \notin {"EOF", "COMMENT"})
    IN  [i \in 1..Len(words) |->
            IF words[i].type = "STRING" THEN "\"" \o words[i].value \o "\""
            ELSE words[i].value]

\* The comments written into a text: a block comment on one line, one over
\* two lines and a line comment with the newline that ends it.
Comments ==
    { <<"/*", "c", "*/">>, <<"/*", "c", "\n", "*/">>, <<"//", "c", "\n">> }

\* The text of the words with the comment written after word k.
commented(words, k, comment) ==
    text(SubSeq(words, 1, k) \o comment \o SubSeq(words, k + 1, Len(words)))

\* The texts comments are written into: those the store is given, a state
\* machine and a requirement with strings.
CommentSources ==
    StoreSources \cup
    { text(words) : words \in
        { <<"package", "P", "{", "state", "def", "M", "{", "entry", ";", "then", "S", ";",
            "state", "S", "{", "entry", "action", "X", "{", "y", "}", "}",
            "transition", "t", "first", "S", "accept", "g", "then", "S", ";", "}", "}">>,
          <<"package", "P", "{", "requirement", "def", "R", "{", "id", "=", "\"A\"", ";",
            "text", "=", "\"B\"", ";", "}", "port", "def", "D", "{", "in", "item", "i",
            ":", "T", ";", "}", "}">>,
          <<"package", "P", "{", "state", "def", "M", "{", "transition", "t", "first", "}">> } }

InitComment ==
    /\ source \in CommentSources
    /\ lexer = LexIdle
    /\ parser = NewParser
    /\ history = <<>>
    /\ store = NewStore

\* The text is parsed as it is, which history keeps, and with a comment
\* written between two of its tokens or between the last and the end.
ParseCommented ==
    /\ history = <<>>
    /\ LET words == wordsOf(tokenize(source))
       IN  \E k \in 1..Len(words), comment \in Comments :
            /\ source' = commented(words, k, comment)
            /\ lexer' = LexReturned(tokenize(source'))
            /\ parser' = run(parse(NewParser, source'))
            /\ history' = record(history, text(words),
                                 run(parse(NewParser, text(words))))
            /\ UNCHANGED store

NextComment == ParseCommented

SpecComment == InitComment /\ [][NextComment]_vars

\* ------------------------------------------------------------- properties

\* The call has returned a Model.
returned == parser.status = "returned"

\* The call has thrown.
raised == parser.status = "raised"

\* The Model the call returned.
result == parser.heap[parser.returned]

\* The elements of Model m in the order they were registered.
elementsOf(m) == mapValues(m.elements)

\* How many times id occurs in the list ids.
occurrences(ids, id) == Cardinality({ i \in 1..Len(ids) : ids[i] = id })

\* The ids of the elements of m that n steps along children lists lead to
\* from the ids in from.
RECURSIVE reach(_, _, _)
reach(m, from, n) ==
    IF n = 0 THEN from
    ELSE reach(m,
               from \cup UNION { { e.children[j] : j \in 1..Len(e.children) } :
                                    e \in { mapGet(m.elements, id) : id \in from } },
               n - 1)

\* The source text of the words given.
sourceIs(words) == source = text(words)

\* C1 (as the specification states it): for every source text parse
\* terminates, returning a Model or raising a parse error; a text that ends
\* inside an unclosed construct makes it raise rather than keep scanning.
\* A call that is still running therefore has its cursor on a token of the
\* input, the last of which is the end-of-input token.
ParseStopsAtEndOfInput ==
    parser.status = "running" => parser.pos < Len(parser.tokens)

\* C2: in every Model parse returns, each id in an element's children is a
\* key of the element map and the element stored under it has that element
\* as its parent.
ParentConsistency ==
    returned =>
        \A E \in Range(elementsOf(result)) :
            \A j \in 1..Len(E.children) :
                /\ mapHas(result.elements, E.children[j])
                /\ mapGet(result.elements, E.children[j]).parent = E.id

\* A Model has been returned in which a child has children of its own.
ParentConsistencyWitness ==
    /\ returned
    /\ \E E \in Range(elementsOf(result)) :
        /\ E.parent # undefined
        /\ Len(E.children) >= 2
        /\ mapGet(result.elements, E.children[2]).parent = E.id

\* C3: in every Model parse returns, every element but the root package has
\* a parent that is a key of the map, occurs exactly once in that parent's
\* children and in no other element's children; every element is reached
\* from the root package along children lists.
NoOrphanNoDualParent ==
    returned =>
        LET all == Range(elementsOf(result))
        IN  /\ \A E \in all :
                \/ E.id = result.rootPackage
                \/ /\ mapHas(result.elements, E.parent)
                   /\ \A F \in all :
                        occurrences(F.children, E.id) =
                            IF F.id = E.parent THEN 1 ELSE 0
            /\ \/ all = {}
               \/ { E.id : E \in all } =
                    reach(result, {result.rootPackage}, Cardinality(all))

\* A Model has been returned that holds elements three levels below the
\* root package.
NoOrphanWitness ==
    /\ returned
    /\ \E E \in Range(elementsOf(result)) :
        /\ E.parent # undefined
        /\ mapGet(result.elements, E.parent).parent # undefined
        /\ mapGet(result.elements, mapGet(result.elements, E.parent).parent).parent
               # undefined

\* C4 (as the specification states it): parsing the text `part def { }`,
\* given as the whole input, raises a parse error that reports an expected
\* identifier and line 1, and returns no Model.
MissingNameAloneRaises ==
    (sourceIs(<<"part", "def", "{", "}">>) /\ parser.status # "idle") =>
        /\ raised
        /\ parser.error.expectedType = "IDENTIFIER"
        /\ parser.error.line = 1
        /\ parser.returned = 0

\* The token after the two at the cursor.
afterNext(p) == p.tokens[p.pos + 3]

\* C4 (amended): a part definition with its name missing that stands in a
\* package body, as in `package P { part def { } }`, makes parse raise an
\* error that reports an expected identifier, the token found instead and
\* that token's line; no Model is returned.
MissingPartDefNameRaises ==
    [][ ( /\ parser.status = "running"
          /\ parser.pc = "packageBody"
          /\ check(parser, "KEYWORD", "part")
          /\ lookAhead(parser, "KEYWORD", "def")
          /\ afterNext(parser).type # "IDENTIFIER" )
        => ( /\ parser'.status = "raised"
             /\ parser'.error.expectedType = "IDENTIFIER"
             /\ parser'.error.gotType = afterNext(parser).type
             /\ parser'.error.gotValue = afterNext(parser).value
             /\ parser'.error.line = afterNext(parser).line
             /\ parser'.returned = 0 ) ]_vars

\* `package P { part def { } }` has been parsed and the error raised.
MissingPartDefNameWitness ==
    /\ sourceIs(<<"package", "P", "{", "part", "def", "{", "}", "}">>)
    /\ raised
    /\ parser.error.expectedType = "IDENTIFIER"
    /\ parser.error.gotType = "LBRACE"
    /\ parser.error.line = 1
    /\ parser.returned = 0

\* C5: when a production requires a token and the current token does not
\* match, parse raises an error naming the expected kind and text and the
\* actual token's kind, text and line; the failing expect leaves the cursor
\* on that token, the error leaves parse and no Model is returned, whatever
\* elements were registered before.
ExpectFailureReportsCurrentToken ==
    raised =>
        LET e == parser.error
        IN  /\ e.gotType = current(parser).type
            /\ e.gotValue = current(parser).value
            /\ e.line = current(parser).line
            /\ ~check(parser, e.expectedType,
                      IF e.expectedValue = "" THEN undefined ELSE e.expectedValue)
            /\ parser.returned = 0
            /\ parser.frames = <<>>

\* `package P { part def A ; part def { } }` has been parsed: the error
\* reports expected IDENTIFIER, got LBRACE, at line 1, with the first part
\* definition registered and no Model returned.
ExpectFailureWitness ==
    /\ sourceIs(<<"package", "P", "{", "part", "def", "A", ";",
                  "part", "def", "{", "}", "}">>)
    /\ raised
    /\ parser.error = [expectedType |-> "IDENTIFIER", expectedValue |-> "",
                       gotType |-> "LBRACE", gotValue |-> "{", line |-> 1]
    /\ Len(theModel(parser).elements) = 2
    /\ parser.returned = 0

\* The character at pos starts none of the token forms of tokenize.
unrecognized(src, pos) ==
    LET char == charAt(src, pos)
        next == charAt(src, pos + 1)
    IN  /\ char \notin WhitespaceChars \cup DigitChars \cup IdentStartChars
        /\ char \notin DOMAIN singleTokens \cup {"\""}
        /\ ~(char = "/" /\ next \in {"/", "*"})

\* A string literal opens at pos and no quote closes it.
unterminatedString(src, pos) ==
    /\ charAt(src, pos) = "\""
    /\ \A i \in (pos + 1)..(Len(src) - 1) : charAt(src, i) # "\""

\* A block comment opens at pos and no */ closes it.
unterminatedComment(src, pos) ==
    /\ charAt(src, pos) = "/" /\ charAt(src, pos + 1) = "*"
    /\ \A i \in (pos + 2)..(Len(src) - 2) :
            ~(charAt(src, i) = "*" /\ charAt(src, i + 1) = "/")

\* The token list new is the list old and one token more, of the type given,
\* whose text is the source from start to its end.
oneTokenToEnd(old, new, type, src, start) ==
    /\ Len(new) = Len(old) + 1
    /\ SubSeq(new, 1, Len(old)) = old
    /\ new[Len(new)].type = type
    /\ new[Len(new)].value = slice(src, start, Len(src))

\* C6: tokenize terminates for every input and never raises: every loop
\* iteration advances the scan position, an unrecognized character is
\* dropped, an unterminated string or block comment is consumed to the end
\* of the input as one token, and the sequence returned holds exactly one
\* EOF token, its last element.
TokenizeTotal ==
    /\ [][ (~lexer.done /\ lexer.pos < Len(lexer.source)) =>
            /\ lexer'.pos > lexer.pos
            /\ ~lexer'.done
            /\ unrecognized(lexer.source, lexer.pos) =>
                    lexer'.tokens = lexer.tokens
            /\ unterminatedString(lexer.source, lexer.pos) =>
                    /\ lexer'.pos >= Len(lexer.source)
                    /\ oneTokenToEnd(lexer.tokens, lexer'.tokens, "STRING",
                                     lexer.source, lexer.pos + 1)
            /\ unterminatedComment(lexer.source, lexer.pos) =>
                    /\ lexer'.pos >= Len(lexer.source)
                    /\ oneTokenToEnd(lexer.tokens, lexer'.tokens, "COMMENT",
                                     lexer.source, lexer.pos) ]_vars
    /\ [](lexer.done =>
            /\ lexer.tokens # <<>>
            /\ \A i \in 1..Len(lexer.tokens) :
                    lexer.tokens[i].type = "EOF" <=> i = Len(lexer.tokens))
    /\ <>lexer.done

\* tokenize has returned from a text with an unrecognized character, a
\* block comment that is not closed and nothing else: one COMMENT token
\* and the EOF token.
TokenizeTotalWitness ==
    /\ source = <<"#", "/", "*", "\"">>
    /\ lexer.done
    /\ Len(lexer.tokens) = 2
    /\ lexer.tokens[1].type = "COMMENT"
    /\ lexer.tokens[1].value = "/*\""
    /\ lexer.tokens[2].type = "EOF"

\* The first token of tokens that is no comment; the list ends with EOF.
RECURSIVE firstNonComment(_)
firstNonComment(tokens) ==
    IF Head(tokens).type # "COMMENT" THEN Head(tokens)
    ELSE firstNonComment(Tail(tokens))

\* C7: for every source whose first non-comment token is not the keyword
\* package, parse returns, without error, a Model with no rootPackage and an
\* empty element map.
NoLeadingPackageGivesEmptyModel ==
    (parser.status # "idle"
        /\ ~(firstNonComment(lexer.tokens).type = "KEYWORD"
                /\ firstNonComment(lexer.tokens).value = "package"))
    => /\ returned
       /\ result.rootPackage = undefined
       /\ result.elements = <<>>
       /\ parser.error = undefined

\* `part def A ;`, after a comment and with no package before it, has been
\* parsed and the empty Model returned.
NoLeadingPackageWitness ==
    /\ sourceIs(<<"/*", "c", "\n", "*/", "part", "def", "A", ";">>)
    /\ returned
    /\ result = NewModel

\* The ids in E's children that name an element of kind type in m, in the
\* order of children.
childrenOfKind(m, E, type) ==
    SelectSeq(E.children, LAMBDA id :
        mapHas(m.elements, id) /\ mapGet(m.elements, id).type = type)

\* C8: in every Model parse returns, a part definition's ports and parts
\* are the subsequences of its children of kind port and part, and a state
\* machine definition's states and transitions the subsequences of its
\* children of kind state and transition: same ids, same order, none
\* outside children.
ConvenienceListsFollowChildren ==
    returned =>
        \A E \in Range(elementsOf(result)) :
            /\ E.type = "part_def" =>
                /\ E.ports = childrenOfKind(result, E, "port")
                /\ E.parts = childrenOfKind(result, E, "part")
            /\ E.type = "state_def" =>
                /\ E.states = childrenOfKind(result, E, "state")
                /\ E.transitions = childrenOfKind(result, E, "transition")

\* A Model has been returned with a part definition that has a port among
\* children of other kinds, one of them a state machine definition that
\* has a state.
ConvenienceListsWitness ==
    /\ returned
    /\ \E E \in Range(elementsOf(result)) :
        /\ E.type = "part_def"
        /\ E.ports # <<>>
        /\ Len(E.children) > Len(E.ports) + Len(E.parts)
        /\ \E j \in 1..Len(E.children) :
            LET F == mapGet(result.elements, E.children[j])
            IN  F.type = "state_def" /\ F.states # <<>>

\* The index of the first token of the body of `part def name {`, or 0 when
\* the tokens hold no part definition of that name with a body.
bodyStart(tokens, name) ==
    LET starts == { k \in 1..(Len(tokens) - 3) :
                        /\ tokens[k].type = "KEYWORD" /\ tokens[k].value = "part"
                        /\ tokens[k + 1].type = "KEYWORD" /\ tokens[k + 1].value = "def"
                        /\ tokens[k + 2].type = "IDENTIFIER"
                        /\ tokens[k + 2].value = name
                        /\ tokens[k + 3].type = "LBRACE" }
    IN  IF starts = {} THEN 0
        ELSE 4 + CHOOSE k \in starts : \A other \in starts : k <= other

\* The index of the first closing brace or end of input at or after i.
RECURSIVE bodyEnd(_, _)
bodyEnd(tokens, i) ==
    IF tokens[i].type \in {"RBRACE", "EOF"} THEN i ELSE bodyEnd(tokens, i + 1)

\* The body that starts at token i is closed and declares port usages and
\* part usages only.
usagesOnly(tokens, i) ==
    /\ tokens[bodyEnd(tokens, i)].type = "RBRACE"
    /\ \A k \in i..(bodyEnd(tokens, i) - 1) :
        /\ tokens[k].type # "LBRACE"
        /\ tokens[k].type = "KEYWORD" =>
            /\ tokens[k].value \in {"port", "part"}
            /\ tokens[k + 1].type = "IDENTIFIER"

\* The usages the body that starts at token i declares, in source order:
\* the kind and the name of each.
RECURSIVE declared(_, _)
declared(tokens, i) ==
    IF tokens[i].type \in {"RBRACE", "EOF"} THEN <<>>
    ELSE IF tokens[i].type = "KEYWORD"
    THEN <<[type |-> tokens[i].value, name |-> tokens[i + 1].value]>>
            \o declared(tokens, i + 1)
    ELSE declared(tokens, i + 1)

\* The kind and name of each element of the list.
kindAndName(elems) ==
    [i \in 1..Len(elems) |-> [type |-> elems[i].type, name |-> elems[i].name]]

\* The ids of the elements of the list that are of kind type.
idsOfKind(elems, type) ==
    LET kept == SelectSeq(elems, LAMBDA e : e.type = type)
    IN  [i \in 1..Len(kept) |-> kept[i].id]

\* C9: for a part definition P whose body declares port usages and part
\* usages, in any interleaving, P.children lists the ids of the elements
\* declared in the body in source declaration order and getChildren(P)
\* returns those elements in that order, the ports among them being
\* P.ports and the parts P.parts.
ChildrenInDeclarationOrder ==
    returned =>
        \A P \in Range(elementsOf(result)) :
            LET start == bodyStart(parser.tokens, P.name)
                got   == getChildren(<<result>>, P.id)
            IN  (P.type = "part_def" /\ start # 0 /\ usagesOnly(parser.tokens, start))
                => /\ kindAndName(got) = declared(parser.tokens, start)
                   /\ [i \in 1..Len(got) |-> got[i].id] = P.children
                   /\ P.ports = idsOfKind(got, "port")
                   /\ P.parts = idsOfKind(got, "part")

\* Ports p1, p2 followed by sub-parts a, b have been parsed: getChildren
\* gives [p1, p2, a, b], ports is [p1, p2] and parts is [a, b].
ChildrenInDeclarationOrderWitness ==
    /\ returned
    /\ \E P \in Range(elementsOf(result)) :
        LET got == getChildren(<<result>>, P.id)
        IN  /\ P.type = "part_def"
            /\ [i \in 1..Len(got) |-> got[i].name] = <<"p1", "p2", "a", "b">>
            /\ P.ports = <<got[1].id, got[2].id>>
            /\ P.parts = <<got[3].id, got[4].id>>

\* The n of the id elem_n, n being at most max.
number(id, max) == CHOOSE n \in 1..max : id = "elem_" \o ToString(n)

\* The place of id among the ids of the call whose outcome is h, in the
\* order they were generated; 0 for no id.
rank(h, id) ==
    IF id = undefined THEN 0
    ELSE Cardinality({ i \in 1..Len(h.model.elements) :
            number(h.model.elements[i].key, h.idCounter) <= number(id, h.idCounter) })

\* The fields of an element that hold ids.
idFields == {"id", "parent"}
idListFields == {"children", "ports", "parts", "states", "transitions"}

\* The Model outcome h holds with each id replaced by its place in creation
\* order and the elements listed in that order.
shape(h) ==
    LET m == h.model
        anonymous(e) ==
            [f \in DOMAIN e |->
                IF f \in idFields THEN rank(h, e[f])
                ELSE IF f \in idListFields
                THEN [j \in 1..Len(e[f]) |-> rank(h, e[f][j])]
                ELSE e[f]]
    IN  [rootPackage |-> rank(h, m.rootPackage),
         elements |-> [r \in 1..Len(m.elements) |->
            anonymous(m.elements[CHOOSE i \in 1..Len(m.elements) :
                                    rank(h, m.elements[i].key) = r].value)]]

\* C10: parsing the same source text twice, with parseSysML or with one
\* reused SysMLParser, ends the same way both times and, when it returns,
\* gives two Models that are structurally identical: the same kinds, names,
\* field values and parent and child relationships under the correspondence
\* of elements in creation order.
SameSourceSameStructure ==
    \A i, j \in 1..Len(history) :
        history[i].source = history[j].source =>
            /\ history[i].status = history[j].status
            /\ history[i].status = "returned" =>
                    shape(history[i]) = shape(history[j])

\* One text has been parsed twice on one instance, a Model of a package
\* with elements in it returned both times.
SameSourceReusedWitness ==
    /\ Len(history) = 2
    /\ history[1].source = history[2].source
    /\ history[1].instance = history[2].instance
    /\ history[2].status = "returned"
    /\ Len(history[2].model.elements) >= 3
    /\ history[1].returned # history[2].returned

\* The last outcome and the one before it.
lastCall == history[Len(history)]
callBefore == history[Len(history) - 1]

\* What a freshly constructed parser makes of src.
fresh(src) == run(parse(NewParser, src))

\* Outcome h is the outcome p: the same error, or the same Model, ids
\* included.
sameOutcome(h, p) ==
    /\ h.status = p.status
    /\ h.status = "raised" => h.error = p.error
    /\ h.status = "returned" => h.model = p.heap[p.returned]

\* C11: a reused SysMLParser leaks no state between calls: parse(s2) after
\* parse(s1) on one instance, whether parse(s1) returned or raised part-way
\* through, gives exactly the outcome (the same Model, ids included, or the
\* same error) that parse(s2) gives on a freshly constructed parser.
ReusedParserLeaksNothing ==
    (Len(history) >= 2 /\ lastCall.instance = callBefore.instance) =>
        sameOutcome(lastCall, fresh(lastCall.source))

\* On one instance a call has raised in the middle of a part definition's
\* body, with elements registered, and the call after it, given another
\* text, has returned a Model with elements.
ReusedAfterRaiseWitness ==
    /\ Len(history) = 2
    /\ lastCall.instance = callBefore.instance
    /\ callBefore.status = "raised"
    /\ callBefore.idCounter >= 2
    /\ callBefore.source # lastCall.source
    /\ lastCall.status = "returned"
    /\ Len(lastCall.model.elements) >= 3

\* C12: a Model returned by one parse call is never changed by a later call
\* on the same SysMLParser: the later call builds a new element map and new
\* element records, so the earlier Model's map, rootPackage and every
\* element's fields and children stay as they were returned.
ReturnedModelNeverChanged ==
    \A i \in 1..Len(history) :
        history[i].status = "returned" =>
            parser.heap[history[i].returned] = history[i].model

\* On one instance a call has returned a Model with elements and the call
\* after it has returned another Model, with other contents.
ReturnedModelKeptWitness ==
    /\ Len(history) = 2
    /\ lastCall.instance = callBefore.instance
    /\ callBefore.status = "returned"
    /\ lastCall.status = "returned"
    /\ Len(callBefore.model.elements) >= 3
    /\ lastCall.model.elements # <<>>
    /\ lastCall.model # callBefore.model
    /\ lastCall.returned # callBefore.returned

\* The entries of the element map the call is building.
entries == theModel(parser).elements

\* C13: within one parse call every created element receives an id distinct
\* from all ids issued earlier in the call: the id generator only counts
\* up, no elements.set overwrites an existing key (an entry keeps its key
\* and the kind and name of its element while the call goes on), and the
\* returned element map has as many entries as elements were created.
IdsUniqueWithinCall ==
    /\ [][ parser.status = "running" =>
            /\ parser'.idCounter >= parser.idCounter
            /\ Len(entries') >= Len(entries)
            /\ \A i \in 1..Len(entries) :
                /\ entries'[i].key = entries[i].key
                /\ entries'[i].value.id = entries[i].value.id
                /\ entries'[i].value.type = entries[i].value.type
                /\ entries'[i].value.name = entries[i].value.name ]_vars
    /\ [](/\ Len(entries) <= parser.idCounter
          /\ \A i, j \in 1..Len(entries) :
                /\ entries[i].value.id = entries[i].key
                /\ i # j => entries[i].key # entries[j].key)
    /\ [](returned => Len(result.elements) = parser.idCounter)

\* A Model with five or more elements has been returned.
IdsUniqueWitness ==
    /\ returned
    /\ Len(result.elements) >= 5
    /\ parser.idCounter = Len(result.elements)

\* C14: every returned Model has zero or one root package: rootPackage is
\* set iff the map is not empty, it names an element of kind package, and
\* that element is the only one of kind package and the only one with no
\* parent; a package keyword inside the root package's body creates no
\* second package element.
AtMostOneRootPackage ==
    returned =>
        LET root == result.rootPackage
        IN  /\ (root # undefined) <=> (result.elements # <<>>)
            /\ root # undefined =>
                /\ mapHas(result.elements, root)
                /\ mapGet(result.elements, root).type = "package"
            /\ \A E \in Range(elementsOf(result)) :
                (E.type = "package" \/ E.parent = undefined) => E.id = root

\* `package P { package Q { part def A ; }` has been parsed: the root
\* package P and the part definition, its child, and no package Q.
NestedPackageKeywordWitness ==
    /\ sourceIs(<<"package", "P", "{", "package", "Q", "{",
                  "part", "def", "A", ";", "}">>)
    /\ returned
    /\ Len(result.elements) = 2
    /\ result.rootPackage = "elem_1"
    /\ mapGet(result.elements, "elem_1").name = "P"
    /\ mapGet(result.elements, "elem_2").type = "part_def"
    /\ mapGet(result.elements, "elem_2").parent = "elem_1"

\* The index of the first token of the body of `requirement def name {`, or
\* 0 when the tokens hold no requirement definition of that name with a body.
requirementBodyStart(tokens, name) ==
    LET starts == { k \in 1..(Len(tokens) - 3) :
                        /\ tokens[k].type = "KEYWORD" /\ tokens[k].value = "requirement"
                        /\ tokens[k + 1].type = "KEYWORD" /\ tokens[k + 1].value = "def"
                        /\ tokens[k + 2].type = "IDENTIFIER"
                        /\ tokens[k + 2].value = name
                        /\ tokens[k + 3].type = "LBRACE" }
    IN  IF starts = {} THEN 0
        ELSE 4 + CHOOSE k \in starts : \A other \in starts : k <= other

\* tokens[i] opens a statement `keyword = "..."`.
assigns(tokens, i, keyword) ==
    /\ tokens[i].type = "KEYWORD" /\ tokens[i].value = keyword
    /\ tokens[i + 1].type = "EQUALS"
    /\ tokens[i + 2].type = "STRING"

\* The string of the last statement `keyword = "..."` of the body that is
\* being read at token i, depth braces deep, found being the string of the
\* last one before i; statements inside nested braces are other content.
RECURSIVE assigned(_, _, _, _, _)
assigned(tokens, i, depth, keyword, found) ==
    IF tokens[i].type = "EOF" THEN found
    ELSE IF tokens[i].type = "RBRACE"
    THEN IF depth = 1 THEN found
         ELSE assigned(tokens, i + 1, depth - 1, keyword, found)
    ELSE IF tokens[i].type = "LBRACE"
    THEN assigned(tokens, i + 1, depth + 1, keyword, found)
    ELSE IF depth = 1 /\ assigns(tokens, i, keyword)
    THEN assigned(tokens, i + 3, depth, keyword, tokens[i + 2].value)
    ELSE assigned(tokens, i + 1, depth, keyword, found)

\* C15 (as the specification states it): a requirement definition in a
\* package takes reqId and text from the `id = "..."` and `text = "..."`
\* statements of its body, as the content of the string without the quotes;
\* any other body content is skipped, creating no element and changing
\* nothing in the reqId and text taken from the statements of that body.
RequirementFieldsFromBody ==
    returned =>
        \A R \in Range(elementsOf(result)) :
            LET start == requirementBodyStart(parser.tokens, R.name)
            IN  (R.type = "requirement_def" /\ start # 0) =>
                    /\ R.reqId = assigned(parser.tokens, start, 1, "id", undefined)
                    /\ R.text = assigned(parser.tokens, start, 1, "text", undefined)
                    /\ R.children = <<>>

\* The index of the first token of the body of `state def name {`, or 0
\* when the tokens hold no state machine definition of that name with a body.
stateDefBodyStart(tokens, name) ==
    LET starts == { k \in 1..(Len(tokens) - 3) :
                        /\ tokens[k].type = "KEYWORD" /\ tokens[k].value = "state"
                        /\ tokens[k + 1].type = "KEYWORD" /\ tokens[k + 1].value = "def"
                        /\ tokens[k + 2].type = "IDENTIFIER"
                        /\ tokens[k + 2].value = name
                        /\ tokens[k + 3].type = "LBRACE" }
    IN  IF starts = {} THEN 0
        ELSE 4 + CHOOSE k \in starts : \A other \in starts : k <= other

\* The tokens from index i on are of the types given, in that order.
RECURSIVE typesAt(_, _, _)
typesAt(tokens, i, types) ==
    \/ types = <<>>
    \/ /\ i <= Len(tokens)
       /\ tokens[i].type = Head(types)
       /\ typesAt(tokens, i + 1, Tail(types))

\* The tokens from index i on are the keywords given, an identifier after
\* each.
RECURSIVE clausesAt(_, _, _)
clausesAt(tokens, i, keywords) ==
    \/ keywords = <<>>
    \/ /\ typesAt(tokens, i, <<"KEYWORD", "IDENTIFIER">>)
       /\ tokens[i].value = Head(keywords)
       /\ clausesAt(tokens, i + 2, Tail(keywords))

\* The states and transitions that the body read from token i on declares,
\* in the order of declaration, added to those of acc; ok is whether the
\* body is closed and made of nothing but `state S`, `state S { }`,
\* `transition t first A accept g then B ;`, `entry ; then S ;` and `;`.
RECURSIVE stateMachine(_, _, _)
stateMachine(tokens, i, acc) ==
    IF tokens[i].type = "RBRACE" THEN acc
    ELSE IF tokens[i].type = "SEMICOLON" THEN stateMachine(tokens, i + 1, acc)
    ELSE IF clausesAt(tokens, i, <<"state">>) /\ typesAt(tokens, i + 2, <<"LBRACE", "RBRACE">>)
    THEN stateMachine(tokens, i + 4,
            [acc EXCEPT !.states = Append(@, tokens[i + 1].value)])
    ELSE IF clausesAt(tokens, i, <<"state">>)
    THEN stateMachine(tokens, i + 2,
            [acc EXCEPT !.states = Append(@, tokens[i + 1].value)])
    ELSE IF clausesAt(tokens, i, <<"transition", "first", "accept", "then">>)
            /\ typesAt(tokens, i + 8, <<"SEMICOLON">>)
    THEN stateMachine(tokens, i + 9,
            [acc EXCEPT !.transitions = Append(@,
                [name |-> tokens[i + 1].value, source |-> tokens[i + 3].value,
                 trigger |-> tokens[i + 5].value, target |-> tokens[i + 7].value])])
    ELSE IF typesAt(tokens, i, <<"KEYWORD", "SEMICOLON", "KEYWORD", "IDENTIFIER", "SEMICOLON">>)
            /\ tokens[i].value = "entry" /\ tokens[i + 2].value = "then"
    THEN stateMachine(tokens, i + 5, acc)
    ELSE [acc EXCEPT !.ok = FALSE]

\* The names of the elements of m the ids name.
namesOf(m, ids) == [i \in 1..Len(ids) |-> mapGet(m.elements, ids[i]).name]

\* The name and the clauses of each transition of m the ids name.
transitionsOf(m, ids) ==
    [i \in 1..Len(ids) |->
        LET T == mapGet(m.elements, ids[i])
        IN  [name |-> T.name, source |-> T.source, trigger |-> T.trigger,
             target |-> T.target]]

\* C16: a state def whose body declares states S1..Sn and transitions
\* T1..Tm yields a state machine definition with states = [S1..Sn] and
\* transitions = [T1..Tm] in declaration order, each `transition t first A
\* accept g then B ;` giving a transition with source A, target B and
\* trigger g; the `entry ; then S ;` shorthand creates no element and
\* leaves the lists as they are.
StateMachineExtraction ==
    returned =>
        \A M \in Range(elementsOf(result)) :
            LET start == stateDefBodyStart(parser.tokens, M.name)
                decls == stateMachine(parser.tokens, start,
                            [ok |-> TRUE, states |-> <<>>, transitions |-> <<>>])
            IN  (M.type = "state_def" /\ start # 0 /\ decls.ok) =>
                    /\ namesOf(result, M.states) = decls.states
                    /\ transitionsOf(result, M.transitions) = decls.transitions
                    /\ Len(M.children) = Len(M.states) + Len(M.transitions)

\* `state def M { entry ; then S ; state S state U { } transition t first
\* S accept g then U ; }` has been parsed: states [S, U], one transition
\* from S to U on g, and no other child.
StateMachineExtractionWitness ==
    /\ returned
    /\ \E M \in Range(elementsOf(result)) :
        /\ M.type = "state_def"
        /\ parser.tokens[stateDefBodyStart(parser.tokens, M.name)].value = "entry"
        /\ namesOf(result, M.states) = <<"S", "U">>
        /\ transitionsOf(result, M.transitions) =
                <<[name |-> "t", source |-> "S", trigger |-> "g", target |-> "U"]>>
        /\ Len(M.children) = 3

\* The qualified name written from token i on, read from the tokens alone:
\* identifiers separated by dots, joined with dots; next is the index of
\* the token after it, ok whether there is such a name.
RECURSIVE segments(_, _, _)
segments(tokens, i, name) ==
    IF typesAt(tokens, i, <<"DOT", "IDENTIFIER">>)
    THEN segments(tokens, i + 2, name \o "." \o tokens[i + 1].value)
    ELSE [ok |-> ~typesAt(tokens, i, <<"DOT">>), name |-> name, next |-> i]

qualified(tokens, i) ==
    IF typesAt(tokens, i, <<"IDENTIFIER">>)
    THEN segments(tokens, i + 1, tokens[i].value)
    ELSE [ok |-> FALSE, name |-> undefined, next |-> i]

\* The statement `interface connect ( Q1 , Q2 )`, with its semicolon if it
\* has one, written from token i on: its two qualified names and the index
\* of the token after the statement.
connectAt(tokens, i) ==
    LET Q1 == qualified(tokens, i + 3)
        Q2 == qualified(tokens, Q1.next + 1)
        ok == /\ typesAt(tokens, i, <<"KEYWORD", "KEYWORD", "LPAREN">>)
              /\ tokens[i].value = "interface"
              /\ tokens[i + 1].value = "connect"
              /\ Q1.ok
              /\ typesAt(tokens, Q1.next, <<"COMMA">>)
              /\ Q2.ok
              /\ typesAt(tokens, Q2.next, <<"RPAREN">>)
    IN  [ok |-> ok,
         source |-> IF ok THEN Q1.name ELSE undefined,
         target |-> IF ok THEN Q2.name ELSE undefined,
         next |-> IF ~ok THEN i
                  ELSE IF typesAt(tokens, Q2.next + 1, <<"SEMICOLON">>)
                  THEN Q2.next + 2 ELSE Q2.next + 1]

\* The element whose body the parser is reading: the package, which is in
\* the Model from its start, or the part definition, which is put there
\* when its body ends.
enclosing(p) ==
    IF p.pc = "packageBody" THEN mapGet(theModel(p).elements, parentId(p))
    ELSE topFrame(p).local

\* C17: `interface connect ( Q1 , Q2 ) ;` in a package body or a part
\* definition body produces exactly one connection element, a child of the
\* enclosing element, whose source is the dot-joined segments of Q1 and
\* whose target those of Q2; the names are looked up nowhere, so no name,
\* declared or not, met before or not, makes the statement raise.
ConnectMakesOneConnection ==
    [][ LET stmt == connectAt(parser.tokens, parser.pos + 1)
            last == entries'[Len(entries')].value
        IN  ( /\ parser.status = "running"
              /\ parser.pc \in {"packageBody", "partDefBody"}
              /\ stmt.ok )
            => ( /\ parser'.status = "running"
                 /\ parser'.pc = parser.pc
                 /\ parser'.pos = stmt.next - 1
                 /\ Len(entries') = Len(entries) + 1
                 /\ \A i \in 1..Len(entries) :
                        entries'[i].key = entries[i].key
                 /\ \A i \in 1..Len(entries) :
                        entries[i].key # enclosing(parser).id
                            => entries'[i] = entries[i]
                 /\ last.type = "connection"
                 /\ last.source = stmt.source
                 /\ last.target = stmt.target
                 /\ last.parent = enclosing(parser).id
                 /\ last.children = <<>>
                 /\ enclosing(parser').id = enclosing(parser).id
                 /\ enclosing(parser').children =
                        Append(enclosing(parser).children, last.id) ) ]_vars

\* `interface connect ( a . b , c ) ;` has been parsed twice in the body of
\* a package that declares no a and no c: the Model returned holds two
\* connections from a.b to c, both children of the package.
ConnectTwiceWitness ==
    /\ returned
    /\ \E i, j \in 1..Len(elementsOf(result)) :
        LET c1 == elementsOf(result)[i]
            c2 == elementsOf(result)[j]
        IN  /\ i < j
            /\ c1.type = "connection" /\ c2.type = "connection"
            /\ c1.source = "a.b" /\ c1.target = "c"
            /\ c2.source = "a.b" /\ c2.target = "c"
            /\ c1.parent = result.rootPackage /\ c2.parent = c1.parent
            /\ \A e \in Range(elementsOf(result)) : e.name \notin {"a", "b", "c"}

\* The parseSysML call that loadModel has just made.
lastLoad == history[Len(history)]

\* C18: loadModel(source) with a source on which parseSysML raises catches
\* the error and leaves the model loaded before and the selection as they
\* were; with a source that parses it replaces the model with the new Model
\* and resets the selection to none.
LoadModelKeepsOrReplaces ==
    [][ history' # history =>
            /\ lastLoad'.status \in {"raised", "returned"}
            /\ lastLoad'.status = "raised" =>
                    /\ store'.model = store.model
                    /\ store'.selectedElement = store.selectedElement
                    /\ store'.console = Append(store.console, lastLoad'.error)
            /\ lastLoad'.status = "returned" =>
                    /\ store'.model = <<lastLoad'.model>>
                    /\ store'.selectedElement = null
                    /\ store'.console = store.console
            /\ store'.viewMode = store.viewMode ]_vars

\* A source that does not parse has been loaded after one that does, an
\* element selected in between: the store still holds the first Model and
\* the selection.
FailedLoadKeepsModelWitness ==
    /\ Len(history) = 2
    /\ history[1].status = "returned"
    /\ history[2].status = "raised"
    /\ Len(store.console) = 1
    /\ store.model = <<history[1].model>>
    /\ Len(history[1].model.elements) >= 2
    /\ store.selectedElement = "elem_2"

\* The declaration that starts at token i with the keyword `port` or
\* `part`, read from the tokens alone: a definition when `def` and a name
\* follow, a usage when a name follows.
declarationAt(tokens, i) ==
    IF ~(typesAt(tokens, i, <<"KEYWORD">>) /\ tokens[i].value \in {"port", "part"})
    THEN [ok |-> FALSE, type |-> undefined, name |-> undefined]
    ELSE IF typesAt(tokens, i + 1, <<"KEYWORD", "IDENTIFIER">>)
            /\ tokens[i + 1].value = "def"
    THEN [ok |-> TRUE, type |-> tokens[i].value \o "_def", name |-> tokens[i + 2].value]
    ELSE IF typesAt(tokens, i + 1, <<"IDENTIFIER">>)
    THEN [ok |-> TRUE, type |-> tokens[i].value, name |-> tokens[i + 1].value]
    ELSE [ok |-> FALSE, type |-> undefined, name |-> undefined]

\* The element the step from p to q has made: the one whose body q has
\* entered, or else the one put in the Model last.
begun(p, q) ==
    IF Len(q.frames) > Len(p.frames) THEN topFrame(q).local
    ELSE theModel(q).elements[Len(theModel(q).elements)].value

\* C19 (as the specification states it): in the package body and in the
\* part definition body alike, `port` followed by `def` yields a port
\* definition and `port` alone a port usage, `part` followed by `def` a
\* part definition and `part` alone a part usage, each a child of the
\* enclosing element.
PortAndPartDispatchOnDef ==
    [][ LET decl == declarationAt(parser.tokens, parser.pos + 1)
        IN  ( /\ parser.status = "running"
              /\ parser.pc \in {"packageBody", "partDefBody"}
              /\ decl.ok )
            => ( /\ ~( /\ parser'.status = "raised"
                       /\ parser'.error.gotValue = "def" )
                 /\ parser'.status = "running" =>
                        /\ parser'.idCounter = parser.idCounter + 1
                        /\ begun(parser, parser').id = lastId(parser')
                        /\ begun(parser, parser').type = decl.type
                        /\ begun(parser, parser').name = decl.name
                        /\ begun(parser, parser').parent = enclosing(parser).id ) ]_vars

\* The elements of the loaded model with one of the tags, none when no
\* model is loaded.
tagged(tags) ==
    IF store.model = <<>> THEN {}
    ELSE { e \in Range(mapValues(store.model[1].elements)) : e.type \in tags }

\* The list holds each element of the set once and nothing else.
exactly(list, set) == Range(list) = set /\ Len(list) = Cardinality(set)

\* C20 (as the specification states it): getPartDefs() returns exactly the
\* elements of the loaded model tagged part definition and getConnections()
\* exactly those tagged connection; each is empty when no model is loaded.
QueriesFilterByOneTag ==
    /\ exactly(getPartDefs(store.model), tagged({"part_def"}))
    /\ exactly(getConnections(store.model), tagged({"connection"}))

\* C20 (amended): getPartDefs() returns exactly the elements of the loaded
\* model tagged part definition, and getConnections() exactly those tagged
\* connection or bind; each is empty when no model is loaded.
QueriesFilterByTag ==
    /\ exactly(getPartDefs(store.model), tagged({"part_def"}))
    /\ exactly(getConnections(store.model), tagged({"connection", "bind"}))
    /\ store.model = <<>> =>
            getPartDefs(store.model) = <<>> /\ getConnections(store.model) = <<>>

\* A Model with two part definitions, a part, a connection and a bind is
\* loaded: getPartDefs() gives the two, getConnections() the connection and
\* the bind.
QueriesFilterByTagWitness ==
    /\ store.model # <<>>
    /\ Len(getPartDefs(store.model)) = 2
    /\ Len(getConnections(store.model)) = 2
    /\ { e.type : e \in Range(getConnections(store.model)) } = {"connection", "bind"}
    /\ Len(store.model[1].elements) > 4

\* The 0-based indices below pos of the newline characters of src.
newlinesBefore(src, pos) == { i \in 0..(pos - 1) : charAt(src, i) = "\n" }

\* The line of the character at 0-based index pos: 1 plus the newlines
\* before it.
lineOf(src, pos) == 1 + Cardinality(newlinesBefore(src, pos))

\* The column of the character at 0-based index pos: 1 plus the characters
\* between the newline before it, or the start of the text, and it.
columnOf(src, pos) ==
    IF newlinesBefore(src, pos) = {} THEN pos + 1
    ELSE pos - (CHOOSE i \in newlinesBefore(src, pos) :
                    \A j \in newlinesBefore(src, pos) : j <= i)

\* C21 (as the specification states it): every token tokenize emits carries
\* the position of its first character, line being 1 plus the newlines
\* before that character and column 1 plus the characters since the newline
\* before it or the start of the input; so do the tokens that follow line
\* comments, block comments and strings with newlines in them, and the
\* string and comment tokens themselves.
TokensCarryStartPosition ==
    [][ (~lexer.done /\ lexer.pos < Len(lexer.source)
            /\ Len(lexer'.tokens) > Len(lexer.tokens)) =>
            /\ lexer'.tokens[Len(lexer'.tokens)].line =
                    lineOf(lexer.source, lexer.pos)
            /\ lexer'.tokens[Len(lexer'.tokens)].column =
                    columnOf(lexer.source, lexer.pos) ]_vars

\* The text of the words the tokens were written with.
unlexed(tokens) == text(wordsOf(tokens))

\* The index of the closing brace that matches an opening one, i being the
\* index after the opening brace and depth the braces open since; 0 when the
\* tokens end first.
RECURSIVE closing(_, _, _)
closing(tokens, i, depth) ==
    IF tokens[i].type = "EOF" THEN 0
    ELSE IF tokens[i].type = "LBRACE" THEN closing(tokens, i + 1, depth + 1)
    ELSE IF tokens[i].type = "RBRACE"
    THEN IF depth = 0 THEN i ELSE closing(tokens, i + 1, depth - 1)
    ELSE closing(tokens, i + 1, depth)

\* `package P { state def M { state U {` opens the tokens: a state body
\* starts at token 11.
opensStateBody(tokens) ==
    /\ clausesAt(tokens, 1, <<"package">>) /\ typesAt(tokens, 3, <<"LBRACE">>)
    /\ typesAt(tokens, 4, <<"KEYWORD">>) /\ tokens[4].value = "state"
    /\ clausesAt(tokens, 5, <<"def">>) /\ typesAt(tokens, 7, <<"LBRACE">>)
    /\ clausesAt(tokens, 8, <<"state">>) /\ typesAt(tokens, 10, <<"LBRACE">>)

\* The index of the opening brace of the first `entry action Name {` that
\* stands directly in the state body opened at token 11, or 0: no brace
\* comes between the start of the body and it.
entryActionBody(tokens) ==
    LET at == { i \in 11..Len(tokens) :
                    /\ typesAt(tokens, i, <<"KEYWORD">>) /\ tokens[i].value = "entry"
                    /\ clausesAt(tokens, i + 1, <<"action">>)
                    /\ typesAt(tokens, i + 3, <<"LBRACE">>)
                    /\ \A j \in 11..(i - 1) :
                            tokens[j].type \notin {"LBRACE", "RBRACE"} }
    IN  IF ~opensStateBody(tokens) \/ at = {} THEN 0
        ELSE 3 + CHOOSE i \in at : \A j \in at : i <= j

\* The tokens without those between the braces at open and close.
emptied(tokens, open, close) ==
    SubSeq(tokens, 1, open) \o SubSeq(tokens, close, Len(tokens))

\* C22 (as the specification states it): in a state body `entry action
\* Name { ... }` sets the state's entryAction to Name and the tokens of the
\* action body are discarded whatever they are: they create no element, and
\* the closing brace of the state, the states and transitions after it and
\* the rest of the model are parsed exactly as if the action body were empty.
EntryActionBodyDiscarded ==
    LET open  == entryActionBody(parser.tokens)
        close == closing(parser.tokens, open + 1, 0)
        empty == fresh(unlexed(emptied(parser.tokens, open, close)))
    IN  (parser.status \in {"returned", "raised"} /\ open # 0 /\ close # 0) =>
            /\ empty.status = parser.status
            /\ returned =>
                /\ result = empty.heap[empty.returned]
                /\ \E U \in Range(elementsOf(result)) :
                        /\ U.type = "state"
                        /\ U.name = parser.tokens[9].value
                        /\ U.entryAction = parser.tokens[open - 1].value

\* The index of the semicolon that terminates the statement read from token
\* i on, depth being the braces open since its start: the first semicolon
\* outside every brace block of the statement; 0 when the enclosing body or
\* the tokens end first.
RECURSIVE terminator(_, _, _)
terminator(tokens, i, depth) ==
    IF tokens[i].type = "EOF" THEN 0
    ELSE IF tokens[i].type = "LBRACE" THEN terminator(tokens, i + 1, depth + 1)
    ELSE IF tokens[i].type = "RBRACE"
    THEN IF depth = 0 THEN 0 ELSE terminator(tokens, i + 1, depth - 1)
    ELSE IF tokens[i].type = "SEMICOLON" /\ depth = 0 THEN i
    ELSE terminator(tokens, i + 1, depth)

\* The parser when the skip loop of parseConnection has ended and
\* parseConnection has returned.
RECURSIVE skipped(_)
skipped(p) ==
    IF p.status = "running" /\ p.pc = "connectionSkip"
    THEN skipped(connectionSkipStep(p)) ELSE p

\* The body loop is at an `interface` statement that is no connect, that
\* has a terminating semicolon, at index end, and no keyword before it.
atOtherInterface ==
    LET end == terminator(parser.tokens, parser.pos + 2, 0)
    IN  /\ parser.status = "running"
        /\ parser.pc \in {"packageBody", "partDefBody"}
        /\ check(parser, "KEYWORD", "interface")
        /\ end # 0
        /\ \A i \in (parser.pos + 2)..end : parser.tokens[i].type # "KEYWORD"

\* C23 (as the specification states it): an `interface` statement that is
\* not of the form `interface connect ( ... )` creates no element:
\* parseConnection returns null, nothing is appended to the children of the
\* enclosing element, the tokens up to and including the semicolon that
\* terminates the statement are consumed, and the body goes on with the
\* siblings that follow.
OtherInterfaceSkipped ==
    LET end   == terminator(parser.tokens, parser.pos + 2, 0)
        after == skipped(step(parser))
    IN  atOtherInterface =>
            /\ after.status = "running"
            /\ after.pc = parser.pc
            /\ after.pos = end
            /\ after.idCounter = parser.idCounter
            /\ theModel(after) = theModel(parser)
            /\ after.frames = parser.frames

\* The clauses of a transition statement read from token i on, over the
\* fields in acc: each `first X`, `accept X`, `then X` sets its field, the
\* semicolon ends the statement at index end; ok is whether the statement
\* is made of such clauses and a semicolon only.
RECURSIVE clauses(_, _, _)
clauses(tokens, i, acc) ==
    IF typesAt(tokens, i, <<"SEMICOLON">>) THEN [acc EXCEPT !.end = i]
    ELSE IF clausesAt(tokens, i, <<"first">>)
    THEN clauses(tokens, i + 2, [acc EXCEPT !.source = tokens[i + 1].value])
    ELSE IF clausesAt(tokens, i, <<"accept">>)
    THEN clauses(tokens, i + 2, [acc EXCEPT !.trigger = tokens[i + 1].value])
    ELSE IF clausesAt(tokens, i, <<"then">>)
    THEN clauses(tokens, i + 2, [acc EXCEPT !.target = tokens[i + 1].value])
    ELSE [acc EXCEPT !.ok = FALSE]

\* The transition statement at the cursor, read from the tokens alone.
transitionAt(p) ==
    IF clausesAt(p.tokens, p.pos + 1, <<"transition">>)
    THEN clauses(p.tokens, p.pos + 3,
                 [ok |-> TRUE, end |-> 0, name |-> p.tokens[p.pos + 2].value,
                  source |-> "", trigger |-> undefined, target |-> ""])
    ELSE [ok |-> FALSE]

\* The parser when the clause loop of parseTransition has ended and
\* parseTransition has returned or raised.
RECURSIVE transitioned(_)
transitioned(p) ==
    IF p.status = "running" /\ p.pc = "transitionLoop"
    THEN transitioned(transitionStep(p)) ELSE p

\* C24: a transition statement consumes the tokens up to its terminating
\* semicolon; its `first X`, `accept X` and `then X` clauses may come in any
\* order and any number of times, the source, trigger and target are the X
\* of the last clause of each kind, and repeated clauses raise no error.
TransitionLastClauseWins ==
    (parser.status = "running" /\ parser.pc = "stateDefBody"
        /\ transitionAt(parser).ok) =>
        LET stmt  == transitionAt(parser)
            after == transitioned(step(parser))
            T     == theModel(after).elements[Len(theModel(after).elements)].value
        IN  /\ after.status = "running"
            /\ after.pc = "stateDefBody"
            /\ after.pos = stmt.end
            /\ Len(theModel(after).elements) = Len(theModel(parser).elements) + 1
            /\ T.type = "transition"
            /\ T.name = stmt.name
            /\ T.source = stmt.source
            /\ T.trigger = stmt.trigger
            /\ T.target = stmt.target
            /\ topFrame(after).local.transitions =
                    Append(topFrame(parser).local.transitions, T.id)

\* `transition t then S then U first U ;` has been parsed, the target
\* given twice and before the source: the transition goes from U to U and
\* has no trigger.
RepeatedClauseWitness ==
    /\ sourceIs(<<"package", "P", "{", "state", "def", "M", "{", "transition", "t",
                  "then", "S", "then", "U", "first", "U", ";", "}", "}">>)
    /\ returned
    /\ \E T \in Range(elementsOf(result)) :
        /\ T.type = "transition"
        /\ T.source = "U" /\ T.target = "U" /\ T.trigger = undefined

\* The parse of the text as it is, beside that of the commented text.
uncommented == history[1]

\* C25: comments never influence the parsed Model: a block comment, or a
\* line comment and the newline that ends it, written between two adjacent
\* tokens gives the same outcome, the same Model with the same ids or an
\* error that differs in the line it reports at most.
CommentsLeaveOutcome ==
    (Len(history) = 1 /\ parser.status # "idle") =>
        /\ parser.status = uncommented.status
        /\ returned => result = uncommented.model
        /\ raised =>
                [parser.error EXCEPT !.line = 0] =
                    [uncommented.error EXCEPT !.line = 0]

\* A text with a package, a part definition and a part has been parsed with
\* a comment written in it: the same three elements.
CommentedSourceWitness ==
    /\ Len(history) = 1
    /\ returned
    /\ \E i \in 1..(Len(source) - 1) : source[i] = "/" /\ source[i + 1] \in {"/", "*"}
    /\ Len(lexer.tokens) = Len(parser.tokens) + 1
    /\ Len(result.elements) >= 3
    /\ result = uncommented.model

\* The ids the store is asked about: those the user interface selects and
\* every key of the loaded model.
asked ==
    Selectable \cup
    (IF store.model = <<>> THEN {}
     ELSE { store.model[1].elements[i].key : i \in 1..Len(store.model[1].elements) })

\* The list holds the elements of model m that the ids name, in the order
\* of the ids, one for each id.
namedBy(list, m, ids) ==
    /\ Len(list) = Len(ids)
    /\ \A i \in 1..Len(ids) :
        /\ list[i].id = ids[i]
        /\ \E j \in 1..Len(m.elements) :
                m.elements[j].key = ids[i] /\ m.elements[j].value = list[i]

\* C26: getChildren(id) returns the elements the children list of element
\* id names, in that list's order, and the empty sequence when id is not in
\* the model or no model is loaded; for a Model parse produced no id is left
\* out, so the result is as long as the children list.  getRootElements()
\* is getChildren(rootPackage) when there is a root package, else empty.
GetChildrenFollowsChildrenList ==
    /\ \A id \in asked :
        IF store.model = <<>> THEN getChildren(store.model, id) = <<>>
        ELSE IF \A j \in 1..Len(store.model[1].elements) :
                    store.model[1].elements[j].key # id
        THEN getChildren(store.model, id) = <<>>
        ELSE \E j \in 1..Len(store.model[1].elements) :
                /\ store.model[1].elements[j].key = id
                /\ namedBy(getChildren(store.model, id), store.model[1],
                           store.model[1].elements[j].value.children)
    /\ IF store.model = <<>> THEN getRootElements(store.model) = <<>>
       ELSE IF store.model[1].rootPackage = undefined
       THEN getRootElements(store.model) = <<>>
       ELSE getRootElements(store.model) =
                getChildren(store.model, store.model[1].rootPackage)

\* A Model whose package has three children, the first of them a part
\* definition with two children of its own, is loaded.
GetChildrenWitness ==
    /\ store.model # <<>>
    /\ Len(getRootElements(store.model)) = 3
    /\ getRootElements(store.model)[1].type = "part_def"
    /\ Len(getChildren(store.model, getRootElements(store.model)[1].id)) = 2
    /\ getChildren(store.model, "elem_9") = <<>>

\* The id with number n.
elem(n) == "elem_" \o ToString(n)

\* C27: in every returned Model with n elements the ids are exactly elem_1
\* to elem_n, every id generated having been registered; the root package
\* is elem_1; and the number of every element's id is greater than that of
\* its parent's, so the parent relation has no cycle.
IdsDenseAndParentsFirst ==
    returned =>
        LET n == Len(result.elements)
        IN  /\ { result.elements[i].key : i \in 1..n } = { elem(k) : k \in 1..n }
            /\ \A i \in 1..n : result.elements[i].value.id = result.elements[i].key
            /\ n = parser.idCounter
            /\ n >= 1 => result.rootPackage = elem(1)
            /\ \A E \in Range(elementsOf(result)) :
                    E.parent # undefined =>
                        \E k, j \in 1..n : E.id = elem(k) /\ E.parent = elem(j) /\ j < k

\* A Model has been returned in which a state lies in a state machine
\* definition that lies in a part definition of the package: ids elem_1 to
\* elem_4 at least, each parent numbered below its child.
ParentsFirstWitness ==
    /\ returned
    /\ Len(result.elements) >= 4
    /\ \E S \in Range(elementsOf(result)) :
        /\ S.type = "state"
        /\ mapGet(result.elements, S.parent).type = "state_def"
        /\ mapGet(result.elements, mapGet(result.elements, S.parent).parent).type
                = "part_def"

\* The kinds of element an element of a kind may hold.
contains(type) ==
    CASE type = "package" ->
            {"item_def", "port_def", "part_def", "requirement_def", "state_def",
             "part", "connection", "bind"}
      [] type = "part_def" -> {"port", "part", "state_def", "connection", "bind"}
      [] type = "state_def" -> {"state", "transition"}
      [] OTHER -> {}

\* The parent of the element id of m; the root's is undefined, as is the
\* parent of undefined.
parentOf(m, id) == IF id = undefined THEN undefined ELSE mapGet(m.elements, id).parent

\* C28: in every returned Model only packages, part definitions and state
\* machine definitions have children, a package holds definitions, part
\* usages, connections and binds, a part definition port and part usages,
\* state machine definitions, connections and binds, a state machine
\* definition states and transitions, and the tree is at most 4 deep.
ContainmentByKind ==
    returned =>
        \A E \in Range(elementsOf(result)) :
            /\ \A c \in Range(E.children) :
                    mapGet(result.elements, c).type \in contains(E.type)
            /\ E.parent # undefined =>
                    E.type \in contains(mapGet(result.elements, E.parent).type)
            /\ parentOf(result, parentOf(result, parentOf(result, E.parent)))
                    = undefined

\* A Model of depth 4 has been returned: a part definition of the package
\* holds a port and a state machine definition, which holds a state.
ContainmentWitness ==
    /\ returned
    /\ \E A, M, S, p \in Range(elementsOf(result)) :
        /\ A.type = "part_def" /\ M.type = "state_def"
        /\ S.type = "state" /\ p.type = "port"
        /\ A.children = <<M.id, p.id>>
        /\ M.children = <<S.id>>
        /\ A.parent = result.rootPackage
        /\ Len(mapGet(result.elements, result.rootPackage).children) = 1

\* The tokens after the closing brace of the root package, the EOF token
\* left out.
trailing == SubSeq(parser.tokens, parser.pos + 1, Len(parser.tokens) - 1)

\* The outcome of a call of a fresh parser on the tokens up to the closing
\* brace of the root package alone.
prefixOutcome == fresh(unlexed(SubSeq(parser.tokens, 1, parser.pos)))

\* C29: parse stops at the closing brace of the root package. At that brace
\* the next step returns the Model as it stands, having consumed the brace
\* and nothing more; and whatever tokens follow, the returned Model is the
\* one a call on the tokens up to that brace alone returns.
ParseStopsAtRootBrace ==
    /\ (/\ parser.status = "running"
        /\ parser.pc = "packageBody"
        /\ check(parser, "RBRACE", undefined))
       => LET after == step(parser)
          IN  /\ after.status = "returned"
              /\ after.pos = parser.pos + 1
              /\ after.heap[after.returned] = theModel(parser)
    /\ (returned /\ parser.pos > 0)
       => /\ parser.tokens[parser.pos].type = "RBRACE"
          /\ prefixOutcome.status = "returned"
          /\ prefixOutcome.heap[prefixOutcome.returned] = result

\* A call has returned with a further declaration or a second package block
\* after the closing brace of the root package.
TrailingTokensWitness ==
    /\ returned
    /\ parser.pos > 0
    /\ trailing # <<>>
    /\ trailing[1].type = "KEYWORD"
    /\ Len(elementsOf(result)) >= 1

\* The ids of the elements of the model the store holds.
loaded == IF store.model = <<>> THEN {}
          ELSE { e.id : e \in Range(elementsOf(store.model[1])) }

\* C30: whatever sources are loaded, parsing or not, and whatever rows, nodes
\* and panes are clicked in between, the selected element is none or the id
\* of an element of the model the store holds; and a load that puts a Model
\* in the store leaves nothing selected.
SelectionInLoadedModel ==
    /\ [](store.selectedElement = null \/ store.selectedElement \in loaded)
    /\ [][ (history' # history /\ lastLoad'.status = "returned")
             => store'.selectedElement = null ]_vars

\* A second Model has been loaded over a first one that holds more elements,
\* and an element of the second has been selected since.
SelectionAcrossLoadsWitness ==
    /\ Len(history) = 2
    /\ history[1].status = "returned"
    /\ history[2].status = "returned"
    /\ Len(history[1].model.elements) > Len(history[2].model.elements)
    /\ store.selectedElement # null
    /\ store.selectedElement \in loaded
====
